---- MODULE Spec2Model ----
(***************************************************************************)
(* The live coordination engine of the LFG server: the durable store       *)
(* (groups, applications), the three subscription registries with their    *)
(* bounded channels, the unary handlers, the two streaming handlers and    *)
(* the reaper, as they are in the newest revision of the sources           *)
(* (src/unnamed/part_001 lines 1-509, src/database/database.go lines       *)
(* 187-626, src/main.go lines 1-314, src/clientinfo/clientinfo.go).        *)
(*                                                                         *)
(* Every handler is cut into atomic steps at its accesses to shared state  *)
(* (one SQL statement, one locked registry operation, one channel          *)
(* operation); steps of different handlers interleave freely.              *)
(***************************************************************************)
EXTENDS Integers, Sequences, FiniteSets, TLC

(***************************************************************************)
(* Bounds of the model.                                                    *)
(***************************************************************************)
MaxOps == 2       \* unary calls started in one behaviour of Spec
MaxChans == 1     \* subscriptions started in one behaviour of Spec
MaxTime == 2      \* last value of the clock (seconds)
Capacity == 2     \* channel capacity; make(chan, 100) in the source, scaled
TTL == 1          \* dbEntryTTL in seconds; 2h by default, scaled
FanoutOps == 3    \* unary calls started in one behaviour of SpecFanout
FanoutChans == 3  \* subscriptions started in one behaviour of SpecFanout
SubscribersOps == 2    \* unary calls in one behaviour of SpecSubscribers
SubscribersChans == 2  \* subscriptions in one behaviour of SpecSubscribers
HeartbeatOps == 3      \* unary calls in one behaviour of SpecHeartbeat
HeartbeatChans == 1    \* subscriptions in one behaviour of SpecHeartbeat
UpdateOps == 2         \* unary calls in one behaviour of SpecUpdate
UpdateChans == 1       \* subscriptions in one behaviour of SpecUpdate
ListOps == 3           \* unary calls in one behaviour of SpecList
AuthCalls == 3         \* calls that enter the chain in SpecAuth
AuthOps == 1           \* handlers started in one behaviour of SpecAuth
LimitCalls == 5        \* calls that reach the limiter in SpecLimit
Hour == 1              \* time.Hour, the age a cache entry may reach; scaled
Burst == 2             \* Burst of the limiter; 20 in main, scaled
cacheEntryTtl == 1     \* cacheEntryTtl of the kpme client; 5 minutes, scaled
EnrichOps == 2         \* unary calls started in one behaviour of SpecEnrich
HandOverOps == 3       \* unary calls in one behaviour of SpecHandOver
HandOverChans == 1     \* subscriptions in one behaviour of SpecHandOver
ShutdownChans == 1     \* subscriptions in one behaviour of SpecShutdown
MaxItems == 1          \* items in one list of a KillProofResponse
MaxAmount == 2         \* largest amount of an item
MaxLinked == 1         \* linked accounts of a KillProofResponse
StoredOps == 2         \* unary calls in one behaviour of SpecStored
StoredChans == 1       \* subscriptions in one behaviour of SpecStored
WatchOps == 1          \* unary calls in one behaviour of SpecWatch
WatchChans == 2        \* subscriptions in one behaviour of SpecWatch

Accounts == {"a1", "a2"}
Tokens == {"t1", "t2"}
\* An account may hold several API keys: t3 is a second key of a2.
MoreTokens == Tokens \cup {"t3"}
Titles == {"raid"}

\* Authenticator.Authenticate: the bearer token resolves to an account name.
AccountOf(t) == IF t = "t1" THEN "a1" ELSE "a2"

\* database.New opens cfg.Path without _foreign_keys and issues no PRAGMA
\* foreign_keys=ON; the default path is "./gw2lfg.db": SQLite does not
\* enforce FOREIGN KEY ... ON DELETE CASCADE on such a connection.
ForeignKeys == FALSE

\* The goroutine of CleanUpExpiredDatabaseEntries; the unary handlers are
\* numbered from 1 in the order in which they start.
Reaper == 0

VARIABLES
    groups,                    \* table groups
    applications,              \* table applications
    now,                       \* time.Now().Unix()
    chans,                     \* the channels made so far, by subscription
    groupsSubscribers,         \* token -> channel
    applicationsSubscribers,   \* group id -> (token -> channel)
    myApplicationsSubscribers, \* key -> channel
    proc,                      \* the reaper (0) and the unary handlers
    stream,                    \* the streaming handlers
    crashed,                   \* an unrecovered panic ended the process
    budget,                    \* calls and subscriptions the clients make
    cache,                     \* Resolver.cache: token -> cacheEntry
    limiters,                  \* RateLimiter.limiters: client id -> bucket
    edge,                      \* the calls in the interceptor chain
    sweeper,                   \* the goroutine of RateLimiter.cleanup
    kp,                        \* a decoded KillProofResponse
    kpProto,                   \* the pb.KillProof made of it
    kpCache,                   \* kpme Client.cache: account name -> cacheEntry
    kpReaders,                 \* the calls that hold Client.mu for reading
    ctx                        \* the context of main, cancelled by a signal

vars == <<groups, applications, now, chans, groupsSubscribers,
          applicationsSubscribers, myApplicationsSubscribers, proc, stream,
          crashed, budget, cache, limiters, edge, sweeper, kp, kpProto,
          kpCache, kpReaders, ctx>>

edgeVars == <<cache, limiters, edge, sweeper>>
kpVars == <<kp, kpProto, kpCache, kpReaders>>

storeVars == <<groups, applications>>
regVars == <<groupsSubscribers, applicationsSubscribers,
             myApplicationsSubscribers>>

Calls == DOMAIN proc \ {Reaper}
Procs == DOMAIN proc
Streams == DOMAIN stream

(***************************************************************************)
(* syncmap.Map: a keyed map under a reader-writer lock.  Each operation is *)
(* atomic.                                                                 *)
(***************************************************************************)
MapSet(m, k, v) == [x \in DOMAIN m \cup {k} |-> IF x = k THEN v ELSE m[x]]
MapDelete(m, k) == [x \in DOMAIN m \ {k} |-> m[x]]
MapHas(m, k) == k \in DOMAIN m
Snapshot(m) == {m[k] : k \in DOMAIN m}
EmptyMap == [x \in {} |-> 0]

(***************************************************************************)
(* The store (package database).                                           *)
(***************************************************************************)
HasGroup(gs, id) == \E g \in gs : g.id = id
GetGroup(gs, id) == CHOOSE g \in gs : g.id = id
ListGroups(gs) == gs

\* INSERT ... ON CONFLICT(id) DO UPDATE SET title, kill_proof_*,
\* updated_at_sec: an existing row keeps creator_id and created_at_sec.
SaveGroup(gs, g) ==
    IF HasGroup(gs, g.id)
    THEN {IF r.id = g.id
          THEN [r EXCEPT !.title = g.title, !.updated = g.updated]
          ELSE r : r \in gs}
    ELSE gs \cup {g}

\* DELETE FROM groups WHERE id = ?
DeleteGroupRow(gs, id) == {g \in gs : g.id # id}

\* The effect of deleting the groups `ids` on the applications: ON DELETE
\* CASCADE acts only when foreign keys are enforced.
CascadeApplications(as, ids) ==
    IF ForeignKeys THEN {a \in as : a.gid \notin ids} ELSE as

ListApplicationsForGroup(as, gid) == {a \in as : a.gid = gid}

\* An account name read as a group id: the ids of groups are UUIDs, never
\* an account name, so each name is an id no group has.
AccountAsGroupId(acct) == IF acct = "a1" THEN -11 ELSE -12

\* ListApplicationsForAccount: the rows of the account, each with its
\* GroupId field overwritten by the account name (app.GroupId = accountName).
ListApplicationsForAccount(as, acct) ==
    {[a EXCEPT !.gid = AccountAsGroupId(acct)] :
        a \in {b \in as : b.applicant = acct}}

SaveApplicationInserts(as, a) == [ok |-> TRUE, apps |-> as \cup {a}]

\* DB.SaveApplication.  The statement reads
\*     ON CONFLICT(id) DO UPDATE SET
\*         account_name = excluded.account_name
\*         updated_at_sec = excluded.updated_at_sec
\* with no comma between the two assignments, and three arguments are bound
\* to its five parameters: SQLite rejects the statement when it is prepared
\* (near "updated_at_sec": syntax error), so every call returns an error
\* and inserts nothing.
SaveApplication(as, a) == [ok |-> FALSE, apps |-> as]

HasApplication(as, id) == \E a \in as : a.id = id
GetApplication(as, id) == CHOOSE a \in as : a.id = id
DeleteApplicationRow(as, id) == {a \in as : a.id # id}

\* DELETE FROM ... WHERE updated_at_sec < ? RETURNING ...
GroupsUpdatedBefore(gs, t) == {g \in gs : g.updated < t}
ApplicationsUpdatedBefore(as, t) == {a \in as : a.updated < t}

\* An UPDATE of the groups without its WHERE creator_id = ?.
TouchAllGroups(gs, acct, t) == {[g EXCEPT !.updated = t] : g \in gs}

\* DB.TouchGroupsAndApplications: one transaction, one updateTime.
TouchGroups(gs, acct, t) ==
    {IF g.creator = acct THEN [g EXCEPT !.updated = t] ELSE g : g \in gs}
TouchApplications(as, acct, t) ==
    {IF a.applicant = acct THEN [a EXCEPT !.updated = t] ELSE a : a \in as}

(***************************************************************************)
(* Update messages and the list of broadcasts a handler still has to make. *)
(***************************************************************************)
GroupUpdate(type, id) ==
    [kind |-> "group", type |-> type, id |-> id, gid |-> id, applicant |-> ""]
ApplicationUpdate(type, a) ==
    [kind |-> "app", type |-> type, id |-> a.id, gid |-> a.gid,
     applicant |-> a.applicant]

RECURSIVE GroupUpdates(_, _)
\* The updates for the rows of a result set, in id order.
GroupUpdates(type, rows) ==
    IF rows = {} THEN <<>>
    ELSE LET r == CHOOSE x \in rows : \A y \in rows : x.id <= y.id
         IN <<GroupUpdate(type, r.id)>> \o GroupUpdates(type, rows \ {r})

RECURSIVE ApplicationUpdates(_, _)
ApplicationUpdates(type, rows) ==
    IF rows = {} THEN <<>>
    ELSE LET r == CHOOSE x \in rows : \A y \in rows : x.id <= y.id
         IN <<ApplicationUpdate(type, r)>>
            \o ApplicationUpdates(type, rows \ {r})

(***************************************************************************)
(* Channels: chan with capacity Capacity.  enq and sent record what was    *)
(* enqueued into the channel and what its handler sent on its stream;      *)
(* overflow records that a broadcast found the channel full.               *)
(***************************************************************************)
NewChan == [buf |-> <<>>, closed |-> FALSE, enq |-> <<>>, sent |-> <<>>,
            overflow |-> FALSE]
ClosedChan == [NewChan EXCEPT !.closed = TRUE]

\* select { case ch <- update: default: } on an open channel.
Offer(c, u) ==
    IF Len(c.buf) < Capacity
    THEN [c EXCEPT !.buf = Append(@, u), !.enq = Append(@, u)]
    ELSE [c EXCEPT !.overflow = TRUE]

OfferAll(cs, S, u) ==
    [ch \in DOMAIN cs |-> IF ch \in S THEN Offer(cs[ch], u) ELSE cs[ch]]


(***************************************************************************)
(* Handlers.  A unary handler is a record of proc, a streaming handler a   *)
(* record of stream; the channel a streaming handler makes has its number. *)
(* subs0 is the set of group subscriptions that were in their loop when    *)
(* the call started, wrote tells that the call committed its store write.  *)
(***************************************************************************)
IdleProc ==
    [op |-> "none", pc |-> "idle", token |-> "", gid |-> 0, aid |-> 0,
     title |-> "", creator |-> "", pending |-> <<>>, snap |-> {}, resp |-> "",
     wrote |-> FALSE, subs0 |-> {}, accountName |-> "", apps |-> {},
     todo |-> {}, killProof |-> EmptyMap, failed |-> {}]

Begin(op, t) == [IdleProc EXCEPT !.op = op, !.token = t]

Answer(me, resp) == [me EXCEPT !.pc = "done", !.resp = resp]

\* Handler p returns `resp`; pending keeps the broadcasts it has not made.
Return(p, resp) ==
    [proc EXCEPT ![p].pc = "done", ![p].resp = resp, ![p].snap = {},
                 ![p].title = "", ![p].creator = ""]

\* The number of the next unary call and of the next subscription.
NewCall == Cardinality(DOMAIN proc)
NewStream == Cardinality(DOMAIN stream) + 1

CanStart == ~crashed /\ NewCall <= budget.ops
CanSubscribe == ~crashed /\ NewStream <= budget.chans

Started(rec) == proc' = proc @@ (NewCall :> rec)

\* The group subscriptions whose handlers are in their send loop.
LoopingGroupStreams ==
    {s \in Streams : stream[s].kind = "groups" /\ stream[s].pc = "loop"}

\* Group ids a request can name: the ids the store holds, an id it never
\* held, and the ids of earlier DeleteGroup requests (a client repeats its
\* request).
GroupIdArgs ==
    {0} \cup {g.id : g \in groups}
        \cup {proc[p].gid : p \in {q \in Calls : proc[q].op = "DeleteGroup"}}
ApplicationIdArgs == {0} \cup {a.id : a \in applications}

\* The groups table as database.New finds it: CREATE TABLE IF NOT EXISTS
\* keeps the rows of the database file, which outlives the process.  The
\* file is new (no rows), or an earlier run of the server left a group in
\* it.
OldGroup == [id |-> -1, creator |-> "a1", title |-> "raid", created |-> 0,
             updated |-> 0]

\* The tables as database.New finds them in a file that holds groups of
\* both accounts and the application of each account to the group of the
\* other.  The rows of the applications table are an input of the queries
\* and of the handlers that read it.
OtherGroup == [id |-> -3, creator |-> "a2", title |-> "raid", created |-> 0,
               updated |-> 0]
OldApplication == [id |-> -4, gid |-> -1, applicant |-> "a2", created |-> 0,
                   updated |-> 0]
OtherApplication == [id |-> -5, gid |-> -3, applicant |-> "a1",
                     created |-> 0, updated |-> 0]
OldApplications == {OldApplication, OtherApplication}
\* A second application for the group of a1, of an account that is not
\* connected.
ThirdApplication == [id |-> -6, gid |-> -1, applicant |-> "a3",
                     created |-> 0, updated |-> 0]

(***************************************************************************)
(* kpme: the answer of killproof.me for an account and the pb.KillProof    *)
(* the server makes of it.  A response holds the account's own killproofs  *)
(* and tokens and those of each linked account; an item is a name with an  *)
(* amount.                                                                 *)
(***************************************************************************)
Counters == {"li", "bskp", "ufe", "w1", "w2", "w3", "w4", "w5", "w6", "w7",
             "w8"}

\* The cases of the switch over the items of a list named killproofs.
KillproofsSwitch ==
    [c \in Counters |->
        CASE c = "li" -> {"Legendary Insight", "Legendary Divination"}
          [] c = "bskp" -> {"Boneskinner Ritual Vial"}
          [] c = "ufe" -> {"Unstable Cosmic Essence"}
          [] OTHER -> {}]

\* The cases of the switch over the items of a list named tokens.
TokensSwitch ==
    [c \in Counters |->
        CASE c = "w1" -> {"Sabetha Flamethrower Fragment Piece",
                          "Sabetha's Coffer"}
          [] c = "w2" -> {"White Mantle Abomination Crystal",
                          "Matthias's Coffer"}
          [] c = "w3" -> {"Ribbon Scrap", "Xera's Coffer"}
          [] c = "w4" -> {"Fragment of Saul's Burden", "Deimos's Coffer"}
          [] c = "w5" -> {"Dhuum's Token", "Dhuum's Coffer"}
          [] c = "w6" -> {"Qadim's Token", "Qadim's Coffer"}
          [] c = "w7" -> {"Ether Djinn's Token",
                          "Qadim the Peerless's Coffer"}
          [] c = "w8" -> {"Ura's Token", "Ura's Coffer"}
          [] OTHER -> {}]

\* One range loop over a list of items: the amounts of the items whose name
\* is among `names`, added up.
RECURSIVE SumAmounts(_, _)
SumAmounts(items, names) ==
    IF items = <<>> THEN 0
    ELSE (IF Head(items).name \in names THEN Head(items).amount ELSE 0)
         + SumAmounts(Tail(items), names)

\* The two loops over the account's own lists, then the loop over kp.Linked
\* with the same two loops inside.
KillProofReponseToProto(r) ==
    LET RECURSIVE SumLinked(_, _)
        SumLinked(linked, c) ==
            IF linked = <<>> THEN 0
            ELSE SumAmounts(Head(linked).killproofs, KillproofsSwitch[c])
                 + SumAmounts(Head(linked).tokens, TokensSwitch[c])
                 + SumLinked(Tail(linked), c)
    IN [c \in Counters |->
           SumAmounts(r.killproofs, KillproofsSwitch[c])
           + SumAmounts(r.tokens, TokensSwitch[c])
           + SumLinked(r.linked, c)]

\* The responses decoded here.  Their items carry both names of LI, the
\* names of BSKP and UFE, a name of the first and one of the last wing, and
\* a name no case has.
KillProofResponses ==
    LET ItemNames == {"Legendary Insight", "Legendary Divination",
                      "Boneskinner Ritual Vial", "Unstable Cosmic Essence",
                      "Sabetha's Coffer", "Ura's Token", "Mystic Coin"}
        Items == [name : ItemNames, amount : 1..MaxAmount]
        ItemLists == UNION {[1..n -> Items] : n \in 0..MaxItems}
        Linked == [killproofs : ItemLists, tokens : ItemLists]
    IN [killproofs : ItemLists, tokens : ItemLists,
        linked : UNION {[1..n -> Linked] : n \in 0..MaxLinked}]

\* No response decoded yet, and the KillProof field of a message left unset.
NoResponse == [killproofs |-> <<>>, tokens |-> <<>>, linked |-> <<>>]
NoKillProof == [c \in {} |-> 0]

\* kpme.KillProofReponseToProto(kp) of the handlers.
KillProofReponseToProto_Call ==
    /\ ~crashed
    /\ kpProto = NoKillProof
    /\ kpProto' = KillProofReponseToProto(kp)
    /\ UNCHANGED <<storeVars, now, chans, regVars, proc, stream, crashed,
                   budget, edgeVars, kp, kpCache, kpReaders, ctx>>

\* main: database.New, NewServer with empty registries, the reaper's
\* goroutine waiting for its ticker.  b is what the clients will ask for.
InitWithKillProof(gs, as, b, r) ==
    /\ groups = gs
    /\ applications = as
    /\ now = 0
    /\ chans = <<>>
    /\ groupsSubscribers = EmptyMap
    /\ applicationsSubscribers = [g \in {} |-> EmptyMap]
    /\ myApplicationsSubscribers = EmptyMap
    /\ proc = [p \in {Reaper} |-> IdleProc]
    /\ stream = <<>>
    /\ crashed = FALSE
    /\ budget = b
    /\ cache = EmptyMap
    /\ limiters = EmptyMap
    /\ edge = <<>>
    /\ sweeper = "started"
    /\ kp = r
    /\ kpProto = NoKillProof
    /\ kpCache = EmptyMap
    /\ kpReaders = {}
    /\ ctx = "live"

InitWithStore(gs, as, b) == InitWithKillProof(gs, as, b, NoResponse)

InitWith(gs, b) == InitWithStore(gs, {}, b)

Init == InitWith({}, [ops |-> MaxOps, chans |-> MaxChans])

(***************************************************************************)
(* Broadcast.  broadcastGroupUpdate takes a snapshot of groupsSubscribers  *)
(* and then offers the update to each channel of the snapshot;             *)
(* broadcastApplicationUpdate does the same with the map registered for    *)
(* the group and then offers the update to the channel registered for the  *)
(* applicant.  A send on a closed channel panics: the channels ranged over *)
(* before it (Go ranges over the snapshot in its arbitrary order) have     *)
(* been offered the update, the others have not.  The recovery interceptor *)
(* turns the panic of a unary handler into an internal error; the reaper's *)
(* goroutine has no recover and the process ends.                          *)
(***************************************************************************)
BroadcastTargets(u) ==
    IF u.kind = "group" THEN Snapshot(groupsSubscribers)
    ELSE IF MapHas(applicationsSubscribers, u.gid)
         THEN Snapshot(applicationsSubscribers[u.gid])
         ELSE {}

BroadcastSnapshot(p) ==
    /\ ~crashed
    /\ proc[p].pc = "snapshot"
    /\ proc' = [proc EXCEPT ![p].pc = "send",
                            ![p].snap = BroadcastTargets(Head(proc[p].pending))]
    /\ UNCHANGED <<storeVars, now, chans, regVars, stream, crashed,
                   budget, edgeVars, kpVars, ctx>>

Panic(p) ==
    /\ proc' = IF p = Reaper THEN [proc EXCEPT ![p] = IdleProc]
               ELSE Return(p, "Internal")
    /\ crashed' = (p = Reaper)

\* What follows the last broadcast of a handler.
Continue(p) ==
    IF p # Reaper THEN [Return(p, "OK") EXCEPT ![p].pending = <<>>]
    ELSE IF proc[p].op = "reapApplications"
         THEN [proc EXCEPT ![p] = [IdleProc EXCEPT !.pc = "groups"]]
         ELSE [proc EXCEPT ![p] = IdleProc]

AfterSend(p) ==
    IF Len(proc[p].pending) > 1
    THEN [proc EXCEPT ![p].pc = "snapshot", ![p].snap = {},
                      ![p].pending = Tail(@)]
    ELSE Continue(p)

BroadcastSend(p) ==
    /\ ~crashed
    /\ proc[p].pc = "send"
    /\ LET u == Head(proc[p].pending)
           msg == [type |-> u.type, id |-> u.id]
           snap == proc[p].snap
           shut == {ch \in snap : chans[ch].closed}
           mine == IF /\ u.kind = "app"
                      /\ MapHas(myApplicationsSubscribers, u.applicant)
                   THEN {myApplicationsSubscribers[u.applicant]}
                   ELSE {}
       IN IF shut # {}
          THEN \E S \in SUBSET (snap \ shut) :
                  /\ chans' = OfferAll(chans, S, msg)
                  /\ Panic(p)
          ELSE LET first == OfferAll(chans, snap, msg)
               IN IF \E ch \in mine : first[ch].closed
                  THEN chans' = first /\ Panic(p)
                  ELSE /\ chans' = OfferAll(first, mine, msg)
                       /\ proc' = AfterSend(p)
                       /\ UNCHANGED crashed
    /\ UNCHANGED <<storeVars, now, regVars, stream, budget, edgeVars,
                   kpVars, ctx>>

(***************************************************************************)
(* CreateGroup: validateNewGroup, SaveGroup, broadcastGroupUpdate.  The id *)
(* uuid.New gives the group is the number of the call.                     *)
(***************************************************************************)
\* A validateNewGroup that refuses as soon as the store holds any group.
CreateGroup_ValidateAnyGroup(t, title) ==
    /\ CanStart
    /\ LET me == Begin("CreateGroup", t) IN
       \/ /\ ListGroups(groups) # {}
          /\ Started(Answer(me, "PermissionDenied"))
       \/ /\ ListGroups(groups) = {}
          /\ Started([me EXCEPT !.pc = "save", !.gid = NewCall,
                                !.title = title,
                                !.subs0 = LoopingGroupStreams])
    /\ UNCHANGED <<storeVars, now, chans, regVars, stream, crashed,
                   budget, edgeVars, kpVars, ctx>>

CreateGroup_Validate(t, title) ==
    /\ CanStart
    /\ LET me == Begin("CreateGroup", t) IN
       \/ Started(Answer(me, "Internal"))
       \/ /\ \E g \in ListGroups(groups) : g.creator = AccountOf(t)
          /\ Started(Answer(me, "PermissionDenied"))
       \/ /\ ~ \E g \in ListGroups(groups) : g.creator = AccountOf(t)
          /\ Started([me EXCEPT !.pc = "save", !.gid = NewCall,
                                !.title = title,
                                !.subs0 = LoopingGroupStreams])
    /\ UNCHANGED <<storeVars, now, chans, regVars, stream, crashed,
                   budget, edgeVars, kpVars, ctx>>

\* A CreateGroup that broadcasts NewGroup without having saved the group.
CreateGroup_BroadcastUnsaved(p) ==
    /\ ~crashed
    /\ proc[p].op = "CreateGroup"
    /\ proc[p].pc = "save"
    /\ proc' = [proc EXCEPT ![p].pc = "snapshot",
                   ![p].pending = <<GroupUpdate("NewGroup", proc[p].gid)>>]
    /\ UNCHANGED <<storeVars, now, chans, regVars, stream, crashed,
                   budget, edgeVars, kpVars, ctx>>

CreateGroup_Save(p) ==
    /\ ~crashed
    /\ proc[p].op = "CreateGroup"
    /\ proc[p].pc = "save"
    /\ \/ /\ proc' = Return(p, "Internal")
          /\ UNCHANGED groups
       \/ /\ groups' = SaveGroup(groups,
                 [id |-> proc[p].gid, creator |-> AccountOf(proc[p].token),
                  title |-> proc[p].title, created |-> now, updated |-> now])
          /\ proc' = [proc EXCEPT ![p].pc = "snapshot", ![p].wrote = TRUE,
                  ![p].pending = <<GroupUpdate("NewGroup", proc[p].gid)>>]
    /\ UNCHANGED <<applications, now, chans, regVars, stream, crashed,
                   budget, edgeVars, kpVars, ctx>>

(***************************************************************************)
(* UpdateGroup: validateGroupOwnership, then SaveGroup of the group of the *)
(* request (its id, creator and created_at are the client's) with          *)
(* updated_at = now, then broadcastGroupUpdate.                            *)
(***************************************************************************)
\* An UpdateGroup without the ownership check of validateGroupOwnership.
UpdateGroup_ValidateNoOwner(t, gid, title, creator) ==
    /\ CanStart
    /\ LET me == [Begin("UpdateGroup", t) EXCEPT !.gid = gid] IN
       \/ /\ ~HasGroup(groups, gid)
          /\ Started(Answer(me, "NotFound"))
       \/ /\ HasGroup(groups, gid)
          /\ Started([me EXCEPT !.pc = "save", !.title = title,
                                !.creator = creator])
    /\ UNCHANGED <<storeVars, now, chans, regVars, stream, crashed,
                   budget, edgeVars, kpVars, ctx>>

UpdateGroup_Validate(t, gid, title, creator) ==
    /\ CanStart
    /\ LET me == [Begin("UpdateGroup", t) EXCEPT !.gid = gid] IN
       \/ Started(Answer(me, "Internal"))
       \/ /\ ~HasGroup(groups, gid)
          /\ Started(Answer(me, "NotFound"))
       \/ /\ HasGroup(groups, gid)
          /\ GetGroup(groups, gid).creator # AccountOf(t)
          /\ Started(Answer(me, "PermissionDenied"))
       \/ /\ HasGroup(groups, gid)
          /\ GetGroup(groups, gid).creator = AccountOf(t)
          /\ Started([me EXCEPT !.pc = "save", !.title = title,
                                !.creator = creator])
    /\ UNCHANGED <<storeVars, now, chans, regVars, stream, crashed,
                   budget, edgeVars, kpVars, ctx>>

UpdateGroup_Save(p) ==
    /\ ~crashed
    /\ proc[p].op = "UpdateGroup"
    /\ proc[p].pc = "save"
    /\ \/ /\ proc' = Return(p, "Internal")
          /\ UNCHANGED groups
       \/ /\ groups' = SaveGroup(groups,
                 [id |-> proc[p].gid, creator |-> proc[p].creator,
                  title |-> proc[p].title, created |-> 0, updated |-> now])
          /\ proc' = [proc EXCEPT ![p].pc = "snapshot", ![p].wrote = TRUE,
                  ![p].pending = <<GroupUpdate("UpdatedGroup", proc[p].gid)>>]
    /\ UNCHANGED <<applications, now, chans, regVars, stream, crashed,
                   budget, edgeVars, kpVars, ctx>>

(***************************************************************************)
(* DeleteGroup: GetGroup, DB.DeleteGroup, broadcastGroupUpdate.  An absent *)
(* group is answered (nil, nil).                                           *)
(***************************************************************************)
\* A DeleteGroup that answers not found for an absent group.
DeleteGroup_GetStrict(t, gid) ==
    /\ CanStart
    /\ LET me == [Begin("DeleteGroup", t) EXCEPT !.gid = gid] IN
       \/ /\ ~HasGroup(groups, gid)
          /\ Started(Answer(me, "NotFound"))
       \/ /\ HasGroup(groups, gid)
          /\ GetGroup(groups, gid).creator # AccountOf(t)
          /\ Started(Answer(me, "PermissionDenied"))
       \/ /\ HasGroup(groups, gid)
          /\ GetGroup(groups, gid).creator = AccountOf(t)
          /\ Started([me EXCEPT !.pc = "delete"])
    /\ UNCHANGED <<storeVars, now, chans, regVars, stream, crashed,
                   budget, edgeVars, kpVars, ctx>>

DeleteGroup_Get(t, gid) ==
    /\ CanStart
    /\ LET me == [Begin("DeleteGroup", t) EXCEPT !.gid = gid] IN
       \/ Started(Answer(me, "Internal"))
       \/ /\ ~HasGroup(groups, gid)
          /\ Started(Answer(me, "OK"))
       \/ /\ HasGroup(groups, gid)
          /\ GetGroup(groups, gid).creator # AccountOf(t)
          /\ Started(Answer(me, "PermissionDenied"))
       \/ /\ HasGroup(groups, gid)
          /\ GetGroup(groups, gid).creator = AccountOf(t)
          /\ Started([me EXCEPT !.pc = "delete"])
    /\ UNCHANGED <<storeVars, now, chans, regVars, stream, crashed,
                   budget, edgeVars, kpVars, ctx>>

(***************************************************************************)
(* DeleteGroupApplication: GetApplication, DB.DeleteApplication,           *)
(* broadcastApplicationUpdate.                                             *)
(***************************************************************************)
\* A DeleteGroupApplication that answers an absent application as
\* DeleteGroup answers an absent group.
DeleteGroupApplication_GetLenient(t, aid) ==
    /\ CanStart
    /\ LET me == [Begin("DeleteGroupApplication", t) EXCEPT !.aid = aid] IN
       \/ /\ ~HasApplication(applications, aid)
          /\ Started(Answer(me, "OK"))
       \/ /\ HasApplication(applications, aid)
          /\ GetApplication(applications, aid).applicant # AccountOf(t)
          /\ Started(Answer(me, "PermissionDenied"))
       \/ /\ HasApplication(applications, aid)
          /\ GetApplication(applications, aid).applicant = AccountOf(t)
          /\ Started([me EXCEPT !.pc = "delete",
                         !.gid = GetApplication(applications, aid).gid])
    /\ UNCHANGED <<storeVars, now, chans, regVars, stream, crashed,
                   budget, edgeVars, kpVars, ctx>>

DeleteGroupApplication_Get(t, aid) ==
    /\ CanStart
    /\ LET me == [Begin("DeleteGroupApplication", t) EXCEPT !.aid = aid] IN
       \/ Started(Answer(me, "Internal"))
       \/ /\ ~HasApplication(applications, aid)
          /\ Started(Answer(me, "NotFound"))
       \/ /\ HasApplication(applications, aid)
          /\ GetApplication(applications, aid).applicant # AccountOf(t)
          /\ Started(Answer(me, "PermissionDenied"))
       \/ /\ HasApplication(applications, aid)
          /\ GetApplication(applications, aid).applicant = AccountOf(t)
          /\ Started([me EXCEPT !.pc = "delete",
                         !.gid = GetApplication(applications, aid).gid])
    /\ UNCHANGED <<storeVars, now, chans, regVars, stream, crashed,
                   budget, edgeVars, kpVars, ctx>>

\* The DELETE statement of DeleteGroup or DeleteGroupApplication and what
\* the handler does with its result.
Handler_Delete(p) ==
    /\ ~crashed
    /\ proc[p].pc = "delete"
    /\ \/ /\ proc' = Return(p, "Internal")
          /\ UNCHANGED storeVars
       \/ IF proc[p].op = "DeleteGroup"
          THEN /\ groups' = DeleteGroupRow(groups, proc[p].gid)
               /\ applications' =
                      CascadeApplications(applications, {proc[p].gid})
               /\ proc' = [proc EXCEPT ![p].pc = "snapshot",
                    ![p].wrote = TRUE,
                    ![p].pending =
                        <<GroupUpdate("RemovedGroupId", proc[p].gid)>>]
          ELSE /\ applications' =
                      DeleteApplicationRow(applications, proc[p].aid)
               /\ proc' = [proc EXCEPT ![p].pc = "snapshot",
                    ![p].wrote = TRUE,
                    ![p].pending =
                        <<ApplicationUpdate("RemovedApplicationId",
                             [id |-> proc[p].aid, gid |-> proc[p].gid,
                              applicant |-> AccountOf(proc[p].token)])>>]
               /\ UNCHANGED groups
    /\ UNCHANGED <<now, chans, regVars, stream, crashed, budget,
                   edgeVars, kpVars, ctx>>

(***************************************************************************)
(* CreateGroupApplication: validateApplication (GetGroup, then             *)
(* ListApplicationsForGroup), SaveApplication, GetKillProof (its outcome   *)
(* changes only the kill-proof field of the payload),                      *)
(* broadcastApplicationUpdate.  The id uuid.New gives the application is   *)
(* the number of the call.                                                 *)
(***************************************************************************)
\* A CreateGroupApplication that stores the application of whoever asks,
\* without validateApplication.
CreateGroupApplication_Unchecked(t, gid) ==
    /\ CanStart
    /\ HasGroup(groups, gid)
    /\ applications' = applications \cup
           {[id |-> NewCall, gid |-> gid, applicant |-> AccountOf(t),
             created |-> now, updated |-> now]}
    /\ Started([Answer([Begin("CreateGroupApplication", t)
                           EXCEPT !.gid = gid], "OK")
                  EXCEPT !.wrote = TRUE])
    /\ UNCHANGED <<groups, now, chans, regVars, stream, crashed,
                   budget, edgeVars, kpVars, ctx>>

CreateGroupApplication_GetGroup(t, gid) ==
    /\ CanStart
    /\ LET me == [Begin("CreateGroupApplication", t) EXCEPT !.gid = gid] IN
       \/ Started(Answer(me, "Internal"))
       \/ /\ ~HasGroup(groups, gid)
          /\ Started(Answer(me, "NotFound"))
       \/ /\ HasGroup(groups, gid)
          /\ GetGroup(groups, gid).creator = AccountOf(t)
          /\ Started(Answer(me, "PermissionDenied"))
       \/ /\ HasGroup(groups, gid)
          /\ GetGroup(groups, gid).creator # AccountOf(t)
          /\ Started([me EXCEPT !.pc = "list"])
    /\ UNCHANGED <<storeVars, now, chans, regVars, stream, crashed,
                   budget, edgeVars, kpVars, ctx>>

CreateGroupApplication_List(p) ==
    /\ ~crashed
    /\ proc[p].op = "CreateGroupApplication"
    /\ proc[p].pc = "list"
    /\ \/ proc' = Return(p, "Internal")
       \/ /\ \E a \in ListApplicationsForGroup(applications, proc[p].gid) :
                a.applicant = AccountOf(proc[p].token)
          /\ proc' = Return(p, "AlreadyExists")
       \/ /\ ~ \E a \in ListApplicationsForGroup(applications, proc[p].gid) :
                  a.applicant = AccountOf(proc[p].token)
          /\ proc' = [proc EXCEPT ![p].pc = "save", ![p].aid = p]
    /\ UNCHANGED <<storeVars, now, chans, regVars, stream, crashed,
                   budget, edgeVars, kpVars, ctx>>

\* SaveApplication, and after a save that succeeded the broadcast; the
\* GetKillProof between the two sets only the kill-proof field of the
\* payload and is not reached when the save fails.
CreateGroupApplication_Save(p) ==
    /\ ~crashed
    /\ proc[p].op = "CreateGroupApplication"
    /\ proc[p].pc = "save"
    /\ LET a == [id |-> proc[p].aid, gid |-> proc[p].gid,
                 applicant |-> AccountOf(proc[p].token),
                 created |-> now, updated |-> now]
           saved == SaveApplication(applications, a)
       IN /\ applications' = saved.apps
          /\ proc' = IF saved.ok
                     THEN [proc EXCEPT ![p].pc = "snapshot",
                              ![p].wrote = TRUE,
                              ![p].pending =
                                  <<ApplicationUpdate("NewApplication", a)>>]
                     ELSE Return(p, "Internal")
    /\ UNCHANGED <<groups, now, chans, regVars, stream, crashed,
                   budget, edgeVars, kpVars, ctx>>

(***************************************************************************)
(* ListGroupApplications: the accountName filter is looked at first, the   *)
(* groupId filter only when accountName is empty, and a request with       *)
(* neither is refused.  apps of the call's record is the list the response *)
(* carries; GetKillProof changes only the kill-proof field of its entries: *)
(* killProof of the record maps the ids of the entries whose field is set  *)
(* to its value, todo holds the entries the loop has not come to, failed    *)
(* the ids of those for which the handler logged an error of GetKillProof. *)
(***************************************************************************)
\* The list is read: the loop over it follows unless it is empty.
Listed(me, list) ==
    IF list = {} THEN [me EXCEPT !.apps = list]
    ELSE [me EXCEPT !.apps = list, !.todo = list, !.pc = "killproof"]

\* What GetGroupId answers for a request without a group id (the empty
\* string), as a group id of the model.
NoGroupId == -2

\* The requests a client can send: each filter is present or not.
ListGroupApplicationsRequests ==
    {[accountName |-> a, groupId |-> g] :
        a \in {""} \cup Accounts, g \in {NoGroupId} \cup GroupIdArgs}

\* A ListGroupApplications that lists the applications of a group for
\* whoever asks.
ListGroupApplications_GetAnyCaller(t, req) ==
    /\ CanStart
    /\ LET me == [Begin("ListGroupApplications", t)
                     EXCEPT !.accountName = req.accountName,
                            !.gid = req.groupId] IN
       IF req.accountName # ""
       THEN Started([Answer(me, "OK") EXCEPT
                        !.apps = ListApplicationsForAccount(
                                     applications, req.accountName)])
       ELSE IF req.groupId # NoGroupId
       THEN IF HasGroup(groups, req.groupId)
            THEN Started([me EXCEPT !.pc = "list"])
            ELSE Started(Answer(me, "NotFound"))
       ELSE Started(Answer(me, "InvalidArgument"))
    /\ UNCHANGED <<storeVars, now, chans, regVars, stream, crashed,
                   budget, edgeVars, kpVars, ctx>>

ListGroupApplications_Get(t, req) ==
    /\ CanStart
    /\ LET me == [Begin("ListGroupApplications", t)
                     EXCEPT !.accountName = req.accountName,
                            !.gid = req.groupId] IN
       IF req.accountName # ""
       THEN \/ /\ req.accountName # AccountOf(t)
               /\ Started(Answer(me, "PermissionDenied"))
            \/ /\ req.accountName = AccountOf(t)
               /\ \/ Started(Answer(me, "Internal"))
                  \/ Started(Listed(Answer(me, "OK"),
                                     ListApplicationsForAccount(
                                         applications, req.accountName)))
       ELSE IF req.groupId # NoGroupId
       THEN \/ Started(Answer(me, "NotFound"))
            \/ /\ HasGroup(groups, req.groupId)
               /\ GetGroup(groups, req.groupId).creator # AccountOf(t)
               /\ Started(Answer(me, "PermissionDenied"))
            \/ /\ HasGroup(groups, req.groupId)
               /\ GetGroup(groups, req.groupId).creator = AccountOf(t)
               /\ Started([me EXCEPT !.pc = "list"])
       ELSE Started(Answer(me, "InvalidArgument"))
    /\ UNCHANGED <<storeVars, now, chans, regVars, stream, crashed,
                   budget, edgeVars, kpVars, ctx>>

\* ListApplicationsForGroup of the group branch and the response.
ListGroupApplications_List(p) ==
    /\ ~crashed
    /\ proc[p].op = "ListGroupApplications"
    /\ proc[p].pc = "list"
    /\ \/ proc' = Return(p, "Internal")
       \/ proc' = [proc EXCEPT
                      ![p] = Listed(Return(p, "OK")[p],
                                    ListApplicationsForGroup(applications,
                                                             proc[p].gid))]
    /\ UNCHANGED <<storeVars, now, chans, regVars, stream, crashed,
                   budget, edgeVars, kpVars, ctx>>

(***************************************************************************)
(* Client.GetKillProof for the entry the loop has come to.  getCached      *)
(* takes mu for reading, reads the entry of the account and deletes it     *)
(* when it is absent or older than cacheEntryTtl; fetch asks killproof.me; *)
(* cacheResult takes mu for writing.  The delete of getCached runs under   *)
(* the read lock: when another call is inside getCached at that moment and *)
(* the map holds an entry, the runtime may find the map being written and  *)
(* end the process (fatal error: concurrent map read and map write).       *)
(***************************************************************************)
\* What fetch can return for an account: an error (no answer, or a body that
\* does not decode), the response without items that any other JSON body
\* decodes to (the status of the answer is not looked at), or the items of
\* the account.
FetchKillProof(accountName) ==
    {[response |-> NoResponse, err |-> TRUE],
     [response |-> NoResponse, err |-> FALSE],
     [response |-> [killproofs |-> <<[name |-> "Legendary Insight",
                                      amount |-> 1]>>,
                    tokens |-> <<>>, linked |-> <<>>],
      err |-> FALSE]}

\* The entry the loop of call p is at.
Entry(p) == CHOOSE a \in proc[p].todo : a.id = proc[p].aid

\* The loop is done with entry a of `me`: its kill-proof field set to the
\* aggregation of r, or left as it is after an error.
Looked(me, a, r, err) ==
    LET rest == me.todo \ {a} IN
    [me EXCEPT !.todo = rest,
               !.pc = IF rest = {} THEN "done" ELSE "killproof",
               !.killProof = IF err THEN @
                             ELSE MapSet(@, a.id, KillProofReponseToProto(r)),
               !.failed = IF err THEN @ \cup {a.id} ELSE @]

GetKillProof_RLock(p) ==
    /\ ~crashed
    /\ proc[p].pc = "killproof"
    /\ \E a \in proc[p].todo :
          proc' = [proc EXCEPT ![p].pc = "getCached", ![p].aid = a.id]
    /\ kpReaders' = kpReaders \cup {p}
    /\ UNCHANGED <<storeVars, now, chans, regVars, stream, crashed,
                   budget, edgeVars, kp, kpProto, kpCache, ctx>>

GetKillProof_getCached(p) ==
    /\ ~crashed
    /\ proc[p].pc = "getCached"
    /\ LET a == Entry(p)
           fresh == /\ MapHas(kpCache, a.applicant)
                    /\ now - kpCache[a.applicant].createTime <= cacheEntryTtl
       IN IF fresh
          THEN /\ proc' = [proc EXCEPT
                              ![p] = Looked(proc[p], a,
                                            kpCache[a.applicant].response,
                                            FALSE)]
               /\ kpReaders' = kpReaders \ {p}
               /\ UNCHANGED <<kpCache, crashed>>
          ELSE \/ /\ kpCache' = MapDelete(kpCache, a.applicant)
                  /\ proc' = [proc EXCEPT ![p].pc = "fetch"]
                  /\ kpReaders' = kpReaders \ {p}
                  /\ UNCHANGED crashed
               \/ /\ kpReaders # {p}
                  /\ kpCache # EmptyMap
                  /\ crashed' = TRUE
                  /\ UNCHANGED <<proc, kpCache, kpReaders>>
    /\ UNCHANGED <<storeVars, now, chans, regVars, stream, budget, edgeVars,
                   kp, kpProto, ctx>>

GetKillProof_fetch(p) ==
    /\ ~crashed
    /\ proc[p].pc = "fetch"
    /\ \E f \in FetchKillProof(Entry(p).applicant) :
          /\ proc' = [proc EXCEPT
                         ![p] = Looked(proc[p], Entry(p), f.response, f.err)]
          /\ IF f.err THEN UNCHANGED kpCache
             ELSE /\ kpReaders = {}
                  /\ kpCache' = MapSet(kpCache, Entry(p).applicant,
                                       [response |-> f.response,
                                        createTime |-> now])
    /\ UNCHANGED <<storeVars, now, chans, regVars, stream, crashed,
                   budget, edgeVars, kp, kpProto, kpReaders, ctx>>

(***************************************************************************)
(* Heartbeat: TouchGroupsAndApplications, then one broadcast per touched   *)
(* group and one per touched application.                                  *)
(***************************************************************************)
Heartbeat_Touch(t) ==
    /\ CanStart
    /\ LET me == Begin("Heartbeat", t)
           acct == AccountOf(t)
           todo == GroupUpdates("UpdatedGroup",
                                {g \in groups : g.creator = acct})
                   \o ApplicationUpdates("UpdatedApplication",
                          {a \in applications : a.applicant = acct})
       IN \/ /\ Started(Answer(me, "Internal"))
             /\ UNCHANGED storeVars
          \/ /\ groups' = TouchGroups(groups, acct, now)
             /\ applications' = TouchApplications(applications, acct, now)
             /\ Started(IF todo = <<>>
                        THEN [Answer(me, "OK") EXCEPT !.wrote = TRUE]
                        ELSE [me EXCEPT !.pc = "snapshot", !.wrote = TRUE,
                                        !.pending = todo])
    /\ UNCHANGED <<now, chans, regVars, stream, crashed, budget,
                   edgeVars, kpVars, ctx>>

(***************************************************************************)
(* CleanUpExpiredDatabaseEntries: on each tick of its ticker, delete the   *)
(* expired applications and broadcast their removal, then the same for the *)
(* expired groups.  A store error is logged and the step goes on with no   *)
(* rows; a statement started with a context that is done is such an error. *)
(* The loop returns when its select takes the case of the done context.    *)
(***************************************************************************)
Reaper_DeleteApplications ==
    /\ ~crashed
    /\ proc[Reaper].pc = "idle"
    /\ \/ /\ UNCHANGED applications
          /\ proc' = [proc EXCEPT ![Reaper] =
                         [IdleProc EXCEPT !.pc = "groups"]]
       \/ LET gone == ApplicationsUpdatedBefore(applications, now - TTL) IN
          /\ ctx = "live"
          /\ applications' = applications \ gone
          /\ proc' = [proc EXCEPT ![Reaper] =
                IF gone = {} THEN [IdleProc EXCEPT !.pc = "groups"]
                ELSE [IdleProc EXCEPT !.op = "reapApplications",
                         !.pc = "snapshot", !.wrote = TRUE, !.pending =
                            ApplicationUpdates("RemovedApplicationId", gone)]]
    /\ UNCHANGED <<groups, now, chans, regVars, stream, crashed,
                   budget, edgeVars, kpVars, ctx>>

Reaper_DeleteGroups ==
    /\ ~crashed
    /\ proc[Reaper].pc = "groups"
    /\ \/ /\ UNCHANGED storeVars
          /\ proc' = [proc EXCEPT ![Reaper] = IdleProc]
       \/ LET gone == GroupsUpdatedBefore(groups, now - TTL) IN
          /\ ctx = "live"
          /\ groups' = groups \ gone
          /\ applications' =
                 CascadeApplications(applications, {g.id : g \in gone})
          /\ proc' = [proc EXCEPT ![Reaper] =
                IF gone = {} THEN IdleProc
                ELSE [IdleProc EXCEPT !.op = "reapGroups", !.pc = "snapshot",
                         !.wrote = TRUE,
                         !.pending = GroupUpdates("RemovedGroupId", gone)]]
    /\ UNCHANGED <<now, chans, regVars, stream, crashed, budget,
                   edgeVars, kpVars, ctx>>

\* A loop whose select has no case for the done context.
Reaper_DoneUnseen ==
    /\ ~crashed
    /\ proc[Reaper].pc = "idle"
    /\ ctx = "cancelled"
    /\ UNCHANGED vars

\* case <-ctx.Done(): return, when this case is ready and the select with
\* the ticker's case takes it.
Reaper_Done ==
    /\ ~crashed
    /\ proc[Reaper].pc = "idle"
    /\ ctx = "cancelled"
    /\ proc' = [proc EXCEPT ![Reaper].pc = "stopped"]
    /\ UNCHANGED <<storeVars, now, chans, regVars, stream, crashed,
                   budget, edgeVars, kpVars, ctx>>

\* SIGTERM or SIGINT: the context signal.NotifyContext made is cancelled.
Signal ==
    /\ ~crashed
    /\ ctx = "live"
    /\ ctx' = "cancelled"
    /\ UNCHANGED <<storeVars, now, chans, regVars, proc, stream, crashed,
                   budget, edgeVars, kpVars>>

\* A second passes.
Tick ==
    /\ ~crashed
    /\ now < MaxTime
    /\ now' = now + 1
    /\ UNCHANGED <<storeVars, chans, regVars, proc, stream, crashed,
                   budget, edgeVars, kpVars, ctx>>

(***************************************************************************)
(* SubscribeGroups: make the channel, register it under the token, then    *)
(* forward the channel to the stream until the stream's context is done or *)
(* a Send fails; the deferred function deletes the token's entry and       *)
(* closes the channel.                                                     *)
(***************************************************************************)
IdleStream == [kind |-> "none", pc |-> "idle", token |-> "", gid |-> 0,
               resp |-> "", cancelled |-> FALSE]

SubscribeGroups_Register(t) ==
    /\ CanSubscribe
    /\ chans' = Append(chans, NewChan)
    /\ groupsSubscribers' = MapSet(groupsSubscribers, t, NewStream)
    /\ stream' = Append(stream, [IdleStream EXCEPT !.kind = "groups",
                                     !.pc = "loop", !.token = t])
    /\ UNCHANGED <<storeVars, now, applicationsSubscribers,
                   myApplicationsSubscribers, proc, crashed, budget,
                   edgeVars, kpVars, ctx>>

(***************************************************************************)
(* SubscribeGroupApplications: make the channel and register it under the  *)
(* account name; GetGroup; when the group exists and the caller created    *)
(* it, register the channel under (group id, token).  The returns before   *)
(* the defer statement run no cleanup.                                     *)
(***************************************************************************)
SubscribeGroupApplications_Register(t, gid) ==
    /\ CanSubscribe
    /\ chans' = Append(chans, NewChan)
    /\ myApplicationsSubscribers' =
           MapSet(myApplicationsSubscribers, AccountOf(t), NewStream)
    /\ stream' = Append(stream, [IdleStream EXCEPT !.kind = "apps",
                                     !.pc = "getgroup", !.token = t,
                                     !.gid = gid])
    /\ UNCHANGED <<storeVars, now, groupsSubscribers,
                   applicationsSubscribers, proc, crashed, budget,
                   edgeVars, kpVars, ctx>>

\* A SubscribeGroupApplications that registers whoever asks for the
\* applications of an existing group.
SubscribeGroupApplications_GetGroupAnyCaller(s) ==
    /\ ~crashed
    /\ stream[s].pc = "getgroup"
    /\ \/ /\ ~HasGroup(groups, stream[s].gid)
          /\ stream' = [stream EXCEPT ![s].pc = "loop"]
       \/ /\ HasGroup(groups, stream[s].gid)
          /\ stream' = [stream EXCEPT ![s].pc = "update"]
    /\ UNCHANGED <<storeVars, now, chans, regVars, proc, crashed,
                   budget, edgeVars, kpVars, ctx>>

SubscribeGroupApplications_GetGroup(s) ==
    /\ ~crashed
    /\ stream[s].pc = "getgroup"
    /\ LET gid == stream[s].gid
           acct == AccountOf(stream[s].token)
       IN \/ stream' = [stream EXCEPT ![s].pc = "done", ![s].resp = "NotFound"]
          \/ /\ ~HasGroup(groups, gid)
             /\ stream' = [stream EXCEPT ![s].pc = "loop"]
          \/ /\ HasGroup(groups, gid)
             /\ GetGroup(groups, gid).creator # acct
             /\ stream' = [stream EXCEPT ![s].pc = "done",
                                         ![s].resp = "PermissionDenied"]
          \/ /\ HasGroup(groups, gid)
             /\ GetGroup(groups, gid).creator = acct
             /\ stream' = [stream EXCEPT ![s].pc = "update"]
    /\ UNCHANGED <<storeVars, now, chans, regVars, proc, crashed,
                   budget, edgeVars, kpVars, ctx>>

SubscribeGroupApplications_Update(s) ==
    /\ ~crashed
    /\ stream[s].pc = "update"
    /\ LET gid == stream[s].gid
           old == IF MapHas(applicationsSubscribers, gid)
                  THEN applicationsSubscribers[gid] ELSE EmptyMap
       IN applicationsSubscribers' =
              MapSet(applicationsSubscribers, gid,
                     MapSet(old, stream[s].token, s))
    /\ stream' = [stream EXCEPT ![s].pc = "loop"]
    /\ UNCHANGED <<storeVars, now, chans, groupsSubscribers,
                   myApplicationsSubscribers, proc, crashed, budget,
                   edgeVars, kpVars, ctx>>

\* The deferred function of the handler of stream s.
Deferred(s) ==
    /\ chans' = [chans EXCEPT ![s] = ClosedChan]
    /\ IF stream[s].kind = "groups"
       THEN /\ groupsSubscribers' =
                   MapDelete(groupsSubscribers, stream[s].token)
            /\ UNCHANGED <<applicationsSubscribers,
                           myApplicationsSubscribers>>
       ELSE /\ applicationsSubscribers' =
                   IF MapHas(applicationsSubscribers, stream[s].gid)
                   THEN [applicationsSubscribers EXCEPT ![stream[s].gid] =
                             MapDelete(@, stream[s].token)]
                   ELSE applicationsSubscribers
            /\ myApplicationsSubscribers' =
                   MapDelete(myApplicationsSubscribers, stream[s].token)
            /\ UNCHANGED groupsSubscribers

\* A receive that takes the newest update of the channel.
ReceiveNewest(buf) ==
    [update |-> buf[Len(buf)], rest |-> SubSeq(buf, 1, Len(buf) - 1)]

\* The head of the channel, as <-updates takes it.
Receive(buf) == [update |-> Head(buf), rest |-> Tail(buf)]

\* case update := <-updates: stream.Send(update), which may fail.
Subscribe_Send(s) ==
    /\ ~crashed
    /\ stream[s].pc = "loop"
    /\ chans[s].buf # <<>>
    /\ LET got == Receive(chans[s].buf)
       IN \/ /\ chans' = [chans EXCEPT ![s].buf = got.rest,
                                       ![s].sent = Append(@, got.update)]
             /\ UNCHANGED <<regVars, stream>>
          \/ /\ Deferred(s)
             /\ stream' = [stream EXCEPT ![s].pc = "done",
                                         ![s].resp = "SendError"]
    /\ UNCHANGED <<storeVars, now, proc, crashed, budget, edgeVars,
                   kpVars, ctx>>

\* case <-stream.Context().Done()
Subscribe_Done(s) ==
    /\ ~crashed
    /\ stream[s].pc = "loop"
    /\ Deferred(s)
    /\ stream' = [stream EXCEPT ![s].pc = "done", ![s].resp = "OK"]
    /\ UNCHANGED <<storeVars, now, proc, crashed, budget, edgeVars,
                   kpVars, ctx>>

\* The context of stream s ends (the client goes away or cancels) while its
\* handler runs; the handler has not looked at it yet.
Stream_ContextDone(s) ==
    /\ ~crashed
    /\ stream[s].pc # "done"
    /\ ~stream[s].cancelled
    /\ stream' = [stream EXCEPT ![s].cancelled = TRUE]
    /\ UNCHANGED <<storeVars, now, chans, regVars, proc, crashed,
                   budget, edgeVars, kpVars, ctx>>

(***************************************************************************)
(* The interceptor chain of a call: grpc_auth with Authenticate (Resolve   *)
(* over the cache, then the upstream), the rate limiter, the handler.      *)
(* edge[c] is the c-th call that entered the chain: name is the account of *)
(* the ClientInfo in its context ("" while there is none), fetched tells   *)
(* that the call contacted the upstream.                                   *)
(***************************************************************************)
\* Bearer tokens: those of the accounts and one the upstream does not know.
BearerTokens == Tokens \cup {"bad"}

\* What fetch can return for a token: an error (no answer, or a body that
\* does not decode), the name of the account, or an account without a name
\* (the body the upstream sends for a token it does not know decodes to an
\* account whose fields are empty).
Fetch(key) ==
    {[name |-> "", err |-> TRUE]}
        \cup (IF key \in Tokens
              THEN {[name |-> AccountOf(key), err |-> FALSE]}
              ELSE {[name |-> "", err |-> FALSE]})

\* Resolver.getCached at time t: the entry of the key unless it is absent
\* or older than an hour, in which case it is deleted.
getCached(c, key, t) ==
    IF ~MapHas(c, key) THEN [hit |-> FALSE, cache |-> c]
    ELSE IF t - c[key].createTime > Hour
    THEN [hit |-> FALSE, cache |-> MapDelete(c, key)]
    ELSE [hit |-> TRUE, cache |-> c]

\* Resolver.cacheResult at time t.
cacheResult(c, key, name, err, t) ==
    MapSet(c, key, [name |-> name, err |-> err, createTime |-> t])

NewEdgeCall == Len(edge) + 1
CanEnter == ~crashed /\ NewEdgeCall <= budget.edge

IdleEdge == [token |-> "", pc |-> "idle", name |-> "", resp |-> "",
             fetched |-> FALSE]

\* An Authenticate that attaches the ClientInfo whatever name Resolve gave.
Authenticated_AnyName(me, name, err) ==
    IF err THEN [me EXCEPT !.pc = "done", !.resp = "Internal"]
    ELSE [me EXCEPT !.pc = "limit", !.name = name]

\* What Authenticate does with the outcome of Resolve.
Authenticated(me, name, err) ==
    IF err THEN [me EXCEPT !.pc = "done", !.resp = "Internal"]
    ELSE IF name = ""
    THEN [me EXCEPT !.pc = "done", !.resp = "Unauthenticated"]
    ELSE [me EXCEPT !.pc = "limit", !.name = name]

\* A getCached that keeps its entries for ever.
Authenticate_NoExpiry(t) ==
    /\ CanEnter
    /\ LET me == [IdleEdge EXCEPT !.token = t]
       IN edge' = Append(edge,
                     IF MapHas(cache, t)
                     THEN Authenticated(me, cache[t].name, cache[t].err)
                     ELSE [me EXCEPT !.pc = "fetch"])
    /\ UNCHANGED <<storeVars, now, chans, regVars, proc, stream, crashed,
                   budget, cache, limiters, sweeper, kpVars, ctx>>

\* Authenticate up to the answer of getCached.
Authenticate(t) ==
    /\ CanEnter
    /\ LET me == [IdleEdge EXCEPT !.token = t]
           got == getCached(cache, t, now)
       IN /\ cache' = got.cache
          /\ edge' = Append(edge,
                        IF got.hit
                        THEN Authenticated(me, cache[t].name, cache[t].err)
                        ELSE [me EXCEPT !.pc = "fetch"])
    /\ UNCHANGED <<storeVars, now, chans, regVars, proc, stream, crashed,
                   budget, limiters, sweeper, kpVars, ctx>>

\* The answer of the upstream, cacheResult, and the rest of Authenticate.
Resolve_Fetch(c) ==
    /\ ~crashed
    /\ edge[c].pc = "fetch"
    /\ \E got \in Fetch(edge[c].token) :
          /\ cache' = cacheResult(cache, edge[c].token, got.name, got.err, now)
          /\ edge' = [edge EXCEPT
                         ![c] = Authenticated([@ EXCEPT !.fetched = TRUE],
                                              got.name, got.err)]
    /\ UNCHANGED <<storeVars, now, chans, regVars, proc, stream, crashed,
                   budget, limiters, sweeper, kpVars, ctx>>

(***************************************************************************)
(* The rate limiter.  A bucket is a rate.Limiter: tokens it held at its     *)
(* last admitted call and the time of that call; one token comes back per  *)
(* second up to Burst.                                                     *)
(***************************************************************************)
RequestsPerSecond == 1
CleanupInterval == 1   \* time.Minute in main, scaled

NewLimiter(t) == [tokens |-> Burst, last |-> t]

\* The tokens of bucket b at time t.
Advance(b, t) ==
    LET n == b.tokens + (t - b.last) * RequestsPerSecond
    IN IF n > Burst THEN Burst ELSE n

\* getLimiter: the bucket of the client, a new one when it has none.
getLimiter(ls, clientID, t) ==
    IF MapHas(ls, clientID) THEN ls ELSE MapSet(ls, clientID, NewLimiter(t))

\* limiter.Allow at time t: ok and the bucket after the call.
Allow(b, t) ==
    IF Advance(b, t) >= 1
    THEN [ok |-> TRUE, limiter |-> [tokens |-> Advance(b, t) - 1, last |-> t]]
    ELSE [ok |-> FALSE, limiter |-> b]

\* A call reaches the limiter with a context of its own: without ClientInfo
\* (name "") or with the ClientInfo of an account.
Enter(name) ==
    /\ CanEnter
    /\ edge' = Append(edge, [IdleEdge EXCEPT !.pc = "limit", !.name = name])
    /\ UNCHANGED <<storeVars, now, chans, regVars, proc, stream, crashed,
                   budget, cache, limiters, sweeper, kpVars, ctx>>

\* A limiter with one bucket for all clients.
RateLimiter_LimitShared(c) ==
    /\ ~crashed
    /\ edge[c].pc = "limit"
    /\ IF edge[c].name = ""
       THEN /\ edge' = [edge EXCEPT ![c].pc = "done",
                                    ![c].resp = "InvalidArgument"]
            /\ UNCHANGED limiters
       ELSE LET ls == getLimiter(limiters, "a1", now)
                got == Allow(ls["a1"], now)
            IN /\ limiters' = [ls EXCEPT !["a1"] = got.limiter]
               /\ edge' = IF got.ok
                          THEN [edge EXCEPT ![c].pc = "handler"]
                          ELSE [edge EXCEPT ![c].pc = "done",
                                            ![c].resp = "ResourceExhausted"]
    /\ UNCHANGED <<storeVars, now, chans, regVars, proc, stream, crashed,
                   budget, cache, sweeper, kpVars, ctx>>

\* RateLimiter.Limit for call c, and what the interceptor does with it.
RateLimiter_Limit(c) ==
    /\ ~crashed
    /\ edge[c].pc = "limit"
    /\ IF edge[c].name = ""
       THEN /\ edge' = [edge EXCEPT ![c].pc = "done",
                                    ![c].resp = "InvalidArgument"]
            /\ UNCHANGED limiters
       ELSE LET ls == getLimiter(limiters, edge[c].name, now)
                got == Allow(ls[edge[c].name], now)
            IN /\ limiters' = [ls EXCEPT ![edge[c].name] = got.limiter]
               /\ edge' = IF got.ok
                          THEN [edge EXCEPT ![c].pc = "handler"]
                          ELSE [edge EXCEPT ![c].pc = "done",
                                            ![c].resp = "ResourceExhausted"]
    /\ UNCHANGED <<storeVars, now, chans, regVars, proc, stream, crashed,
                   budget, cache, sweeper, kpVars, ctx>>

\* RateLimiter.cleanup: the goroutine makes its ticker and returns (the
\* loop over the ticker is commented out); no bucket is ever removed.
RateLimiter_cleanup ==
    /\ ~crashed
    /\ sweeper = "started"
    /\ sweeper' = "returned"
    /\ UNCHANGED <<storeVars, now, chans, regVars, proc, stream, crashed,
                   budget, cache, limiters, edge, kpVars, ctx>>

\* The calls with token t the chain has handed to a handler, and the
\* handlers that run with token t: a handler starts for a call the chain
\* handed over.
HandedOver(t) ==
    Cardinality({c \in DOMAIN edge :
                    edge[c].pc = "handler" /\ edge[c].token = t})
Running(t) ==
    Cardinality({p \in Calls : proc[p].token = t})
        + Cardinality({x \in Streams : stream[x].token = t})

Next ==
    \/ \E t \in Tokens, title \in Titles : CreateGroup_Validate(t, title)
    \/ \E p \in Calls : CreateGroup_Save(p)
    \/ \E t \in Tokens, gid \in GroupIdArgs, title \in Titles,
          creator \in Accounts : UpdateGroup_Validate(t, gid, title, creator)
    \/ \E p \in Calls : UpdateGroup_Save(p)
    \/ \E t \in Tokens, gid \in GroupIdArgs : DeleteGroup_Get(t, gid)
    \/ \E t \in Tokens, aid \in ApplicationIdArgs :
          DeleteGroupApplication_Get(t, aid)
    \/ \E p \in Calls : Handler_Delete(p)
    \/ \E t \in Tokens, gid \in GroupIdArgs :
          CreateGroupApplication_GetGroup(t, gid)
    \/ \E p \in Calls : CreateGroupApplication_List(p)
    \/ \E p \in Calls : CreateGroupApplication_Save(p)
    \/ \E t \in Tokens : Heartbeat_Touch(t)
    \/ Reaper_DeleteApplications
    \/ Reaper_DeleteGroups
    \/ Tick
    \/ \E p \in Procs : BroadcastSnapshot(p)
    \/ \E p \in Procs : BroadcastSend(p)
    \/ \E t \in Tokens : SubscribeGroups_Register(t)
    \/ \E t \in Tokens, gid \in GroupIdArgs :
          SubscribeGroupApplications_Register(t, gid)
    \/ \E s \in Streams : SubscribeGroupApplications_GetGroup(s)
    \/ \E s \in Streams : SubscribeGroupApplications_Update(s)
    \/ \E s \in Streams : Subscribe_Send(s)
    \/ \E s \in Streams : Subscribe_Done(s)

Spec == Init /\ [][Next]_vars

(***************************************************************************)
(* The server restarted over the database file an earlier run left: the    *)
(* unary and streaming handlers, before the reaper's first tick.           *)
(***************************************************************************)
InitRestart == InitWith({OldGroup}, [ops |-> MaxOps, chans |-> MaxChans])

NextRestart ==
    \/ \E t \in Tokens, title \in Titles : CreateGroup_Validate(t, title)
    \/ \E p \in Calls : CreateGroup_Save(p)
    \/ \E t \in Tokens, gid \in GroupIdArgs, title \in Titles,
          creator \in Accounts : UpdateGroup_Validate(t, gid, title, creator)
    \/ \E p \in Calls : UpdateGroup_Save(p)
    \/ \E t \in Tokens, gid \in GroupIdArgs : DeleteGroup_Get(t, gid)
    \/ \E t \in Tokens, aid \in ApplicationIdArgs :
          DeleteGroupApplication_Get(t, aid)
    \/ \E p \in Calls : Handler_Delete(p)
    \/ \E t \in Tokens, gid \in GroupIdArgs :
          CreateGroupApplication_GetGroup(t, gid)
    \/ \E p \in Calls : CreateGroupApplication_List(p)
    \/ \E p \in Calls : CreateGroupApplication_Save(p)
    \/ \E t \in Tokens : Heartbeat_Touch(t)
    \/ \E p \in Calls : BroadcastSnapshot(p)
    \/ \E p \in Calls : BroadcastSend(p)
    \/ \E t \in Tokens : SubscribeGroups_Register(t)
    \/ \E t \in Tokens, gid \in GroupIdArgs :
          SubscribeGroupApplications_Register(t, gid)
    \/ \E s \in Streams : SubscribeGroupApplications_GetGroup(s)
    \/ \E s \in Streams : SubscribeGroupApplications_Update(s)
    \/ \E s \in Streams : Subscribe_Send(s)
    \/ \E s \in Streams : Subscribe_Done(s)

SpecRestart == InitRestart /\ [][NextRestart]_vars

(***************************************************************************)
(* Group subscriptions that start and end around CreateGroup calls.        *)
(***************************************************************************)
InitSubscribers ==
    InitWith({}, [ops |-> SubscribersOps, chans |-> SubscribersChans])

NextSubscribers ==
    \/ \E t \in Tokens : SubscribeGroups_Register(t)
    \/ \E s \in Streams : Subscribe_Send(s)
    \/ \E s \in Streams : Subscribe_Done(s)
    \/ \E t \in Tokens, title \in Titles : CreateGroup_Validate(t, title)
    \/ \E p \in Calls : CreateGroup_Save(p)
    \/ \E p \in Calls : BroadcastSnapshot(p)
    \/ \E p \in Calls : BroadcastSend(p)

SpecSubscribers == InitSubscribers /\ [][NextSubscribers]_vars

(***************************************************************************)
(* The fan-out alone, with three subscriptions: clients that subscribe to  *)
(* the groups and leave while the creator of the group an earlier run left *)
(* sends heartbeats.                                                       *)
(***************************************************************************)
InitFanout ==
    InitWith({OldGroup}, [ops |-> FanoutOps, chans |-> FanoutChans])

NextFanout ==
    \/ \E t \in MoreTokens : SubscribeGroups_Register(t)
    \/ \E s \in Streams : Subscribe_Send(s)
    \/ \E s \in Streams : Subscribe_Done(s)
    \/ Heartbeat_Touch("t1")
    \/ \E p \in Calls : BroadcastSnapshot(p)
    \/ \E p \in Calls : BroadcastSend(p)

SpecFanout == InitFanout /\ [][NextFanout]_vars

(***************************************************************************)
(* Heartbeats between two ticks of the reaper's ticker: accounts create    *)
(* groups next to the group an earlier run left and send heartbeats while  *)
(* the clock advances and a client subscribes to the groups.               *)
(***************************************************************************)
InitHeartbeat ==
    InitWith({OldGroup}, [ops |-> HeartbeatOps, chans |-> HeartbeatChans])

NextHeartbeat ==
    \/ \E t \in Tokens, title \in Titles : CreateGroup_Validate(t, title)
    \/ \E p \in Calls : CreateGroup_Save(p)
    \/ \E t \in Tokens : Heartbeat_Touch(t)
    \/ Tick
    \/ \E p \in Calls : BroadcastSnapshot(p)
    \/ \E p \in Calls : BroadcastSend(p)
    \/ \E t \in Tokens : SubscribeGroups_Register(t)
    \/ \E s \in Streams : Subscribe_Send(s)
    \/ \E s \in Streams : Subscribe_Done(s)

SpecHeartbeat == InitHeartbeat /\ [][NextHeartbeat]_vars

(***************************************************************************)
(* Updates of the group an earlier run left, between two ticks of the      *)
(* reaper's ticker, while the clock advances and a client subscribes to    *)
(* the groups.                                                             *)
(***************************************************************************)
InitUpdate == InitWith({OldGroup}, [ops |-> UpdateOps, chans |-> UpdateChans])

NextUpdate ==
    \/ \E t \in Tokens, gid \in GroupIdArgs, title \in Titles,
          creator \in Accounts : UpdateGroup_Validate(t, gid, title, creator)
    \/ \E p \in Calls : UpdateGroup_Save(p)
    \/ Tick
    \/ \E p \in Calls : BroadcastSnapshot(p)
    \/ \E p \in Calls : BroadcastSend(p)
    \/ \E t \in Tokens : SubscribeGroups_Register(t)
    \/ \E s \in Streams : Subscribe_Send(s)
    \/ \E s \in Streams : Subscribe_Done(s)

SpecUpdate == InitUpdate /\ [][NextUpdate]_vars

(***************************************************************************)
(* Listings of applications while clients apply to the group an earlier    *)
(* run left and its creator deletes it; nobody subscribes.                 *)
(***************************************************************************)
InitList == InitWith({OldGroup}, [ops |-> ListOps, chans |-> 0])

NextList ==
    \/ \E t \in Tokens, req \in ListGroupApplicationsRequests :
          ListGroupApplications_Get(t, req)
    \/ \E p \in Calls : ListGroupApplications_List(p)
    \/ \E t \in Tokens, gid \in GroupIdArgs :
          CreateGroupApplication_GetGroup(t, gid)
    \/ \E p \in Calls : CreateGroupApplication_List(p)
    \/ \E p \in Calls : CreateGroupApplication_Save(p)
    \/ \E t \in Tokens, gid \in GroupIdArgs : DeleteGroup_Get(t, gid)
    \/ \E p \in Calls : Handler_Delete(p)
    \/ \E p \in Calls : BroadcastSnapshot(p)
    \/ \E p \in Calls : BroadcastSend(p)

SpecList == InitList /\ [][NextList]_vars

(***************************************************************************)
(* The handlers that read the applications table, over a file that holds   *)
(* applications: listings, deletions, heartbeats and further applications, *)
(* while clients subscribe to the applications of a group.                 *)
(***************************************************************************)
InitStored ==
    \E as \in SUBSET OldApplications :
        InitWithStore({OldGroup, OtherGroup}, as,
                      [ops |-> StoredOps, chans |-> StoredChans])

NextStored ==
    \/ \E t \in Tokens, req \in ListGroupApplicationsRequests :
          ListGroupApplications_Get(t, req)
    \/ \E p \in Calls : ListGroupApplications_List(p)
    \/ \E p \in Calls : GetKillProof_RLock(p)
    \/ \E p \in Calls : GetKillProof_getCached(p)
    \/ \E p \in Calls : GetKillProof_fetch(p)
    \/ \E t \in Tokens, aid \in ApplicationIdArgs :
          DeleteGroupApplication_Get(t, aid)
    \/ \E p \in Calls : Handler_Delete(p)
    \/ \E t \in Tokens, gid \in GroupIdArgs :
          CreateGroupApplication_GetGroup(t, gid)
    \/ \E p \in Calls : CreateGroupApplication_List(p)
    \/ \E p \in Calls : CreateGroupApplication_Save(p)
    \/ \E t \in Tokens : Heartbeat_Touch(t)
    \/ \E p \in Calls : BroadcastSnapshot(p)
    \/ \E p \in Calls : BroadcastSend(p)
    \/ \E t \in Tokens, gid \in GroupIdArgs :
          SubscribeGroupApplications_Register(t, gid)
    \/ \E s \in Streams : SubscribeGroupApplications_GetGroup(s)
    \/ \E s \in Streams : SubscribeGroupApplications_Update(s)
    \/ \E s \in Streams : Subscribe_Send(s)
    \/ \E s \in Streams : Subscribe_Done(s)

SpecStored == InitStored /\ [][NextStored]_vars

(***************************************************************************)
(* Two subscriptions to the applications of the groups while an applicant  *)
(* withdraws an application the file holds.                                *)
(***************************************************************************)
InitWatch ==
    \E as \in SUBSET OldApplications :
        InitWithStore({OldGroup, OtherGroup}, as,
                      [ops |-> WatchOps, chans |-> WatchChans])

NextWatch ==
    \/ \E t \in Tokens, aid \in ApplicationIdArgs :
          DeleteGroupApplication_Get(t, aid)
    \/ \E p \in Calls : Handler_Delete(p)
    \/ \E p \in Calls : BroadcastSnapshot(p)
    \/ \E p \in Calls : BroadcastSend(p)
    \/ \E t \in Tokens, gid \in GroupIdArgs :
          SubscribeGroupApplications_Register(t, gid)
    \/ \E s \in Streams : SubscribeGroupApplications_GetGroup(s)
    \/ \E s \in Streams : SubscribeGroupApplications_Update(s)
    \/ \E s \in Streams : Subscribe_Send(s)
    \/ \E s \in Streams : Subscribe_Done(s)

SpecWatch == InitWatch /\ [][NextWatch]_vars

(***************************************************************************)
(* Calls through the interceptor chain: authentication over the cache and  *)
(* the upstream, the limiter, then the handler of CreateGroup or of        *)
(* SubscribeGroups, with the clock advancing.                              *)
(***************************************************************************)
InitAuth ==
    InitWith({}, [ops |-> AuthOps, chans |-> AuthOps, edge |-> AuthCalls])

NextAuth ==
    \/ \E t \in BearerTokens : Authenticate(t)
    \/ \E c \in DOMAIN edge : Resolve_Fetch(c)
    \/ \E c \in DOMAIN edge : RateLimiter_Limit(c)
    \/ \E t \in BearerTokens, title \in Titles :
          Running(t) < HandedOver(t) /\ CreateGroup_Validate(t, title)
    \/ \E p \in Calls : CreateGroup_Save(p)
    \/ \E p \in Calls : BroadcastSnapshot(p)
    \/ \E p \in Calls : BroadcastSend(p)
    \/ \E t \in BearerTokens :
          Running(t) < HandedOver(t) /\ SubscribeGroups_Register(t)
    \/ \E s \in Streams : Subscribe_Send(s)
    \/ \E s \in Streams : Subscribe_Done(s)
    \/ Tick

SpecAuth == InitAuth /\ [][NextAuth]_vars

(***************************************************************************)
(* The limiter alone: calls reach it with and without ClientInfo while the *)
(* clock advances.                                                         *)
(***************************************************************************)
InitLimit == InitWith({}, [ops |-> 0, chans |-> 0, edge |-> LimitCalls])

NextLimit ==
    \/ \E name \in {""} \cup Accounts : Enter(name)
    \/ \E c \in DOMAIN edge : RateLimiter_Limit(c)
    \/ RateLimiter_cleanup
    \/ Tick

SpecLimit == InitLimit /\ [][NextLimit]_vars

\* The limiter with its goroutines scheduled: the sweeper's goroutine and
\* the calls in the chain take their steps, and the clock goes on.
SpecSweep == SpecLimit /\ WF_vars(NextLimit)

(***************************************************************************)
(* Properties.                                                             *)
(***************************************************************************)
\* Update m was enqueued into the channel of subscription s.
Enqueued(s, m) == \E i \in 1..Len(chans[s].enq) : chans[s].enq[i] = m

\* The channel of subscription s is in one of the three registries.
Registered(s) ==
    \/ s \in Snapshot(groupsSubscribers)
    \/ s \in Snapshot(myApplicationsSubscribers)
    \/ \E g \in DOMAIN applicationsSubscribers :
          s \in Snapshot(applicationsSubscribers[g])

\* C1: in every reachable state of the store, concurrent CreateGroup calls
\* of one account included, each account is the creator of at most one
\* group.
C1_OneGroupPerCreator ==
    \A a \in Accounts : Cardinality({g \in groups : g.creator = a}) <= 1

\* C2: in every reachable state, concurrent CreateGroupApplication calls of
\* one account for one group included, the store holds at most one
\* application per pair (group id, applicant).
C2_OneApplicationPerPair ==
    \A x \in applications : \A y \in applications :
        (x.gid = y.gid /\ x.applicant = y.applicant) => x = y

\* Two CreateGroupApplication calls of one account for one group overlap:
\* one has called SaveApplication while the other, validated, is about to.
C2_TwoCallsPastValidation ==
    \E p \in Calls : \E q \in Calls \ {p} :
        /\ proc[p].op = "CreateGroupApplication"
        /\ proc[q].op = "CreateGroupApplication"
        /\ proc[p].token = proc[q].token
        /\ proc[p].gid = proc[q].gid
        /\ proc[p].pc = "done" /\ proc[p].aid # 0
        /\ proc[q].pc = "save"

C5_RegisteredSubscriberGetsNewGroup ==
    \A p \in Calls :
        (/\ proc[p].op = "CreateGroup"
         /\ proc[p].pc = "done"
         /\ proc[p].resp = "OK")
        => \A s \in proc[p].subs0 :
               (stream[s].pc = "loop" /\ ~chans[s].overflow)
               => Enqueued(s, [type |-> "NewGroup", id |-> proc[p].gid])

\* C6: an update is enqueued (or dropped on a full channel) only by a
\* handler that has committed its store write and has not returned, the
\* update is that handler's, a handler is in its broadcast only after its
\* write, and a mutation that returns success has no broadcast left.
C6_WriteThenEnqueueThenReturn ==
    [][/\ \A s \in Streams :
             (\/ Len(chans'[s].enq) > Len(chans[s].enq)
              \/ chans'[s].overflow /\ ~chans[s].overflow)
             => \E p \in Procs :
                    /\ proc[p].pc = "send"
                    /\ proc[p].wrote
                    /\ proc'[p].pc # "send"
                    /\ Len(chans'[s].enq) > Len(chans[s].enq)
                       => chans'[s].enq[Len(chans'[s].enq)] =
                              [type |-> Head(proc[p].pending).type,
                               id |-> Head(proc[p].pending).id]
       /\ \A p \in DOMAIN proc' :
             /\ proc'[p].pc \in {"snapshot", "send"} => proc'[p].wrote
             /\ (p # Reaper /\ proc'[p].pc = "done" /\ proc'[p].resp = "OK")
                => proc'[p].pending = <<>>
      ]_vars

\* A CreateGroup returned success and its NewGroup is in a channel.
C6_CreatedAndEnqueued ==
    \E p \in Calls : \E s \in Streams :
        /\ proc[p].op = "CreateGroup"
        /\ proc[p].pc = "done"
        /\ proc[p].resp = "OK"
        /\ proc[p].wrote
        /\ Enqueued(s, [type |-> "NewGroup", id |-> proc[p].gid])

\* C7: every unary mutation and every reaper step that reaches its
\* broadcast completes it and returns: the process goes on, and a call
\* that committed its write returns success with no broadcast left.
C7_BroadcastCompletes ==
    /\ ~crashed
    /\ \A p \in Calls :
           (proc[p].pc = "done" /\ proc[p].wrote)
           => (proc[p].resp = "OK" /\ proc[p].pending = <<>>)

\* C8: no channel holds more than Capacity updates, and a broadcast that
\* finds a registered channel full (it offered the update there and the
\* channel took the default branch) leaves the full channels as they are
\* and registered, and enqueues the update into every other registered
\* channel of its snapshot, which has room.
C8_FullChannelSkippedAlone ==
    [][\A p \in Calls :
          (proc[p].pc = "send" /\ proc'[p].pc # "send")
          => LET u == Head(proc[p].pending)
                 msg == [type |-> u.type, id |-> u.id]
                 targets == proc[p].snap \cap Snapshot(groupsSubscribers)
                 full == {s \in targets : Len(chans[s].buf) = Capacity}
                 found == {s \in full : chans'[s].overflow}
             IN /\ \A s \in Streams : Len(chans'[s].buf) <= Capacity
                /\ found # {}
                   => /\ \A s \in full :
                            /\ chans'[s].buf = chans[s].buf
                            /\ s \in Snapshot(groupsSubscribers')
                      /\ \A s \in targets \ full :
                            chans'[s].buf = Append(chans[s].buf, msg)
      ]_vars

\* C9: what a subscription has sent on its stream, followed by what its
\* channel holds, is what was enqueued into the channel, in that order.
C9_SentInEnqueueOrder ==
    \A s \in Streams :
        ~chans[s].closed => chans[s].enq = chans[s].sent \o chans[s].buf

\* A subscription has sent two different updates.
C9_TwoUpdatesSent ==
    \E s \in Streams :
        /\ Len(chans[s].sent) = 2
        /\ chans[s].sent[1] # chans[s].sent[2]

\* C10: when a subscription handler has returned, on any exit path, the
\* channel it made is in none of the three registries.
C10_ReturnedHandlerDeregistered ==
    \A s \in Streams : stream[s].pc = "done" => ~Registered(s)

\* The number of updates of `type` for row `id` in the list `pending`.
Issues(pending, type, id) ==
    Cardinality({i \in 1..Len(pending) :
                    pending[i].type = type /\ pending[i].id = id})

\* C11: in one reaper step every row the step removes from the store, an
\* application that goes with its group included, gets exactly one removal
\* broadcast with its id: the step lists one removal per removed row, and
\* the reaper drops an update from its list only when the broadcast of that
\* update was issued.
C11_OneRemovalBroadcastPerReapedRow ==
    [][/\ (proc[Reaper].pc \in {"idle", "groups"}
           /\ proc'[Reaper] # proc[Reaper])
          => /\ \A g \in groups \ groups' :
                   Issues(proc'[Reaper].pending, "RemovedGroupId", g.id) = 1
             /\ \A a \in applications \ applications' :
                   Issues(proc'[Reaper].pending, "RemovedApplicationId",
                          a.id) = 1
       /\ Len(proc'[Reaper].pending) < Len(proc[Reaper].pending)
          => /\ proc[Reaper].pc = "send"
             /\ proc'[Reaper].pending = Tail(proc[Reaper].pending)
      ]_vars

C13_DeleteAbsentGroupSucceeds ==
    [][\A p \in DOMAIN proc' \ DOMAIN proc :
          (proc'[p].op = "DeleteGroup" /\ ~HasGroup(groups, proc'[p].gid))
          => /\ proc'[p].pc = "done"
             /\ proc'[p].resp \in {"OK", "Internal"}
             /\ proc'[p].pending = <<>>
             /\ ~proc'[p].wrote
             /\ UNCHANGED <<storeVars, chans, regVars>>
      ]_vars

\* A DeleteGroup deleted a group, and a later DeleteGroup of the same id
\* found no group and returned success.
C13_DeleteRepeated ==
    \E p \in Calls : \E q \in Calls :
        /\ p < q
        /\ proc[p].op = "DeleteGroup" /\ proc[q].op = "DeleteGroup"
        /\ proc[p].gid = proc[q].gid
        /\ proc[p].pc = "done" /\ proc[p].resp = "OK" /\ proc[p].wrote
        /\ proc[q].pc = "done" /\ proc[q].resp = "OK" /\ ~proc[q].wrote
        /\ ~HasGroup(groups, proc[q].gid)

\* C14: a CreateGroup of an account that is the creator of a group returns
\* permission denied at once (Internal only when the listing itself fails),
\* stores nothing, enqueues nothing and has no broadcast to make; a
\* CreateGroup of an account that is the creator of no group is not refused
\* because of the groups of other accounts.
C14_SecondGroupRefused ==
    [][\A p \in DOMAIN proc' \ DOMAIN proc :
          proc'[p].op = "CreateGroup"
          => IF \E g \in groups : g.creator = AccountOf(proc'[p].token)
             THEN /\ proc'[p].pc = "done"
                  /\ proc'[p].resp \in {"PermissionDenied", "Internal"}
                  /\ proc'[p].pending = <<>>
                  /\ ~proc'[p].wrote
                  /\ UNCHANGED <<storeVars, chans, regVars>>
             ELSE proc'[p].resp # "PermissionDenied"
      ]_vars

\* The creator of a group was refused a second group, and another account
\* created its group while the first account's group was in the store.
C14_RefusedAndCreated ==
    \E p \in Calls : \E q \in Calls :
        /\ proc[p].op = "CreateGroup" /\ proc[q].op = "CreateGroup"
        /\ proc[p].pc = "done" /\ proc[p].resp = "PermissionDenied"
        /\ proc[q].pc = "done" /\ proc[q].resp = "OK" /\ proc[q].wrote
        /\ \E g \in groups : g.creator = AccountOf(proc[p].token)
        /\ \E g \in groups :
              g.id = proc[q].gid /\ g.creator = AccountOf(proc[q].token)
        /\ AccountOf(proc[p].token) # AccountOf(proc[q].token)

\* C15: an UpdateGroup of a group id the store does not hold returns not
\* found and an UpdateGroup by an account other than the group's creator
\* returns permission denied (Internal only when the lookup itself fails):
\* both return at once, change no row, enqueue nothing and have no
\* broadcast to make.  The creator's UpdateGroup is not refused; its save
\* stores the title of the request with updated_at = now and lists one
\* UpdatedGroup for the group, and it returns success only after that
\* broadcast.
C15_UpdateGroupChecksOwner ==
    [][/\ \A p \in DOMAIN proc' \ DOMAIN proc :
             proc'[p].op = "UpdateGroup"
             => LET gid == proc'[p].gid
                    refused ==
                        /\ proc'[p].pc = "done"
                        /\ proc'[p].pending = <<>>
                        /\ ~proc'[p].wrote
                        /\ UNCHANGED <<storeVars, chans, regVars>>
                IN IF ~HasGroup(groups, gid)
                   THEN refused /\ proc'[p].resp \in {"NotFound", "Internal"}
                   ELSE IF GetGroup(groups, gid).creator
                              # AccountOf(proc'[p].token)
                   THEN /\ refused
                        /\ proc'[p].resp \in {"PermissionDenied", "Internal"}
                   ELSE proc'[p].resp \notin {"NotFound", "PermissionDenied"}
       /\ \A p \in Calls :
             proc[p].op = "UpdateGroup"
             => /\ (proc[p].pc = "save" /\ proc'[p].wrote)
                   => /\ proc'[p].pending =
                             <<GroupUpdate("UpdatedGroup", proc[p].gid)>>
                      /\ \E g \in groups' :
                            /\ g.id = proc[p].gid
                            /\ g.title = proc[p].title
                            /\ g.updated = now
                /\ (proc'[p].pc = "done" /\ proc'[p].resp = "OK")
                   => (proc'[p].wrote /\ proc'[p].pending = <<>>)
      ]_vars

\* An account that is not the creator was refused, the creator made the
\* same update with success, and a subscriber has the UpdatedGroup.
C15_RefusedThenUpdated ==
    \E p \in Calls : \E q \in Calls : \E s \in Streams :
        /\ proc[p].op = "UpdateGroup" /\ proc[q].op = "UpdateGroup"
        /\ proc[p].gid = proc[q].gid
        /\ proc[p].pc = "done" /\ proc[p].resp = "PermissionDenied"
        /\ proc[q].pc = "done" /\ proc[q].resp = "OK" /\ proc[q].wrote
        /\ \E g \in groups : g.id = proc[q].gid /\ g.updated > g.created
        /\ Enqueued(s, [type |-> "UpdatedGroup", id |-> proc[q].gid])

C17_ApplicationStored ==
    \A p \in Calls :
        (/\ proc[p].op = "CreateGroupApplication"
         /\ proc[p].pc = "done"
         /\ proc[p].aid # 0)
        => /\ proc[p].resp = "OK"
           /\ proc[p].wrote
           /\ \E a \in applications :
                 /\ a.id = proc[p].aid
                 /\ a.gid = proc[p].gid
                 /\ a.applicant = AccountOf(proc[p].token)
                 /\ a.created = a.updated
                 /\ \A b \in applications : b.id = a.id => b = a

C19_ExactlyOneFilterOrInvalidArgument ==
    [][\A p \in DOMAIN proc' \ DOMAIN proc :
          proc'[p].op = "ListGroupApplications"
          => LET byAccount == proc'[p].accountName # ""
                 byGroup == proc'[p].gid # NoGroupId
             IN IF byAccount = byGroup
                THEN /\ proc'[p].pc = "done"
                     /\ proc'[p].resp = "InvalidArgument"
                     /\ proc'[p].apps = {}
                ELSE proc'[p].resp # "InvalidArgument"
      ]_vars

\* C20: a ListGroupApplications whose caller is neither the account its
\* accountName filter names nor the creator of the group its groupId filter
\* names returns at once with no application: permission denied, or not
\* found when the lookup of the group finds no group (or fails).  A call
\* answered at once with a list names the caller's own account and carries
\* that account's applications, only the creator of the group goes on to
\* list the group's applications, and what that call returns is what the
\* store holds for the group.
C20_ListsOnlyForCreatorOrAccount ==
    [][/\ \A p \in DOMAIN proc' \ DOMAIN proc :
             proc'[p].op = "ListGroupApplications"
             => LET caller == AccountOf(proc'[p].token)
                    acct == proc'[p].accountName
                    gid == proc'[p].gid
                    named == acct # "" /\ acct = caller
                    creates == /\ gid # NoGroupId
                               /\ HasGroup(groups, gid)
                               /\ GetGroup(groups, gid).creator = caller
                IN /\ (~named /\ ~creates /\ (acct # "" \/ gid # NoGroupId))
                      => /\ proc'[p].pc = "done"
                         /\ proc'[p].apps = {}
                         /\ IF acct = "" /\ ~HasGroup(groups, gid)
                            THEN proc'[p].resp = "NotFound"
                            ELSE \/ proc'[p].resp = "PermissionDenied"
                                 \/ acct = "" /\ proc'[p].resp = "NotFound"
                   /\ proc'[p].resp = "OK"
                      => /\ named
                         /\ proc'[p].apps =
                                ListApplicationsForAccount(applications, acct)
                   /\ proc'[p].pc = "list" => creates
                   /\ proc'[p].pc \in {"done", "list"}
                   /\ proc'[p].pc = "list" => proc'[p].apps = {}
       /\ \A p \in Calls :
             (proc[p].op = "ListGroupApplications" /\ proc'[p] # proc[p])
             => /\ proc[p].pc = "list"
                /\ proc'[p].pc = "done"
                /\ proc'[p].apps \subseteq
                       ListApplicationsForGroup(applications, proc[p].gid)
                /\ proc'[p].resp = "OK"
                   => proc'[p].apps =
                          ListApplicationsForGroup(applications, proc[p].gid)
      ]_vars

\* A caller who did not create the group was refused its applications and
\* the creator was answered with the list.
C20_RefusedAndListed ==
    /\ \E p \in Calls :
           /\ proc[p].op = "ListGroupApplications"
           /\ proc[p].accountName = ""
           /\ HasGroup(groups, proc[p].gid)
           /\ GetGroup(groups, proc[p].gid).creator # AccountOf(proc[p].token)
           /\ proc[p].pc = "done"
           /\ proc[p].resp = "PermissionDenied"
    /\ \E p \in Calls :
           /\ proc[p].op = "ListGroupApplications"
           /\ proc[p].accountName = ""
           /\ HasGroup(groups, proc[p].gid)
           /\ GetGroup(groups, proc[p].gid).creator = AccountOf(proc[p].token)
           /\ proc[p].pc = "done"
           /\ proc[p].resp = "OK"
    /\ \E p \in Calls :
           /\ proc[p].op = "ListGroupApplications"
           /\ proc[p].accountName \notin {"", AccountOf(proc[p].token)}
           /\ proc[p].pc = "done"
           /\ proc[p].resp = "PermissionDenied"

\* C21: a ListGroupApplications whose accountName filter names the caller and
\* which succeeds returns exactly the applications the store holds for that
\* applicant, each with the id, the group id (the group applied to) and the
\* applicant stored for it.
C21_ListsStoredApplicationsOfAccount ==
    [][\A p \in DOMAIN proc' \ DOMAIN proc :
          (/\ proc'[p].op = "ListGroupApplications"
           /\ proc'[p].accountName = AccountOf(proc'[p].token)
           /\ proc'[p].resp = "OK")
          => {[id |-> a.id, gid |-> a.gid, applicant |-> a.applicant] :
                 a \in proc'[p].apps}
             = {[id |-> a.id, gid |-> a.gid, applicant |-> a.applicant] :
                   a \in {b \in applications :
                             b.applicant = proc'[p].accountName}}
      ]_vars

\* C22: the broadcast of an application update for (groupId, applicant)
\* snapshots the buffers registered for groupId in the per-group registry,
\* offers the update to every one of them and to the buffer registered for
\* the applicant in the per-applicant registry, and changes no other
\* buffer; a CreateGroupApplication returns success only out of the
\* broadcast of the NewApplication of its application.
C22_ApplicationUpdateOffered ==
    [][\A p \in Procs :
          /\ (/\ proc[p].pc = "snapshot"
              /\ Head(proc[p].pending).kind = "app"
              /\ proc'[p].pc = "send")
             => proc'[p].snap =
                   (IF MapHas(applicationsSubscribers,
                              Head(proc[p].pending).gid)
                    THEN Snapshot(applicationsSubscribers[
                                      Head(proc[p].pending).gid])
                    ELSE {})
          /\ (/\ proc[p].pc = "send"
              /\ Head(proc[p].pending).kind = "app"
              /\ proc'[p] # proc[p])
             => LET u == Head(proc[p].pending)
                    msg == [type |-> u.type, id |-> u.id]
                    mine == IF MapHas(myApplicationsSubscribers, u.applicant)
                            THEN {myApplicationsSubscribers[u.applicant]}
                            ELSE {}
                    targets == proc[p].snap \cup mine
                IN /\ \A ch \in targets : chans'[ch] = Offer(chans[ch], msg)
                   /\ \A ch \in DOMAIN chans \ targets :
                         chans'[ch] = chans[ch]
          /\ (/\ proc[p].op = "CreateGroupApplication"
              /\ proc[p].pc # "done"
              /\ proc'[p].pc = "done"
              /\ proc'[p].resp = "OK")
             => /\ proc[p].pc = "send"
                /\ Head(proc[p].pending).type = "NewApplication"
                /\ Head(proc[p].pending).id = proc[p].aid
      ]_vars

\* C23: a SubscribeGroupApplications whose group exists and was not created
\* by the caller returns permission denied without registering for the
\* group (not found when the lookup itself fails); a channel is entered in
\* the per-group registry only by the handler that owns it, under its own
\* token and the group id it asked for, after its lookup found the group
\* with the caller as creator; and an application update is enqueued only
\* into channels of streams whose account is the applicant of the update or
\* the creator of its group.
C23_OnlyCreatorRegistersForGroup ==
    [][/\ \A s \in Streams :
             /\ (stream[s].pc = "getgroup" /\ stream'[s] # stream[s])
                => LET acct == AccountOf(stream[s].token)
                       created == /\ HasGroup(groups, stream[s].gid)
                                  /\ GetGroup(groups, stream[s].gid).creator
                                        = acct
                   IN /\ UNCHANGED regVars
                      /\ stream'[s].pc = "update" => created
                      /\ (HasGroup(groups, stream[s].gid) /\ ~created)
                         => /\ stream'[s].pc = "done"
                            /\ stream'[s].resp
                                  \in {"PermissionDenied", "NotFound"}
                      /\ stream'[s].resp = "PermissionDenied"
                         => (HasGroup(groups, stream[s].gid) /\ ~created)
             /\ (stream'[s].pc = "update" /\ stream[s].pc # "update")
                => stream[s].pc = "getgroup"
       /\ \A gid \in DOMAIN applicationsSubscribers' :
             \A tok \in DOMAIN applicationsSubscribers'[gid] :
                (\/ gid \notin DOMAIN applicationsSubscribers
                 \/ tok \notin DOMAIN applicationsSubscribers[gid]
                 \/ applicationsSubscribers[gid][tok]
                       # applicationsSubscribers'[gid][tok])
                => LET s == applicationsSubscribers'[gid][tok]
                   IN /\ s \in Streams
                      /\ stream[s].pc = "update"
                      /\ stream[s].gid = gid
                      /\ stream[s].token = tok
       /\ \A ch \in DOMAIN chans :
             Len(chans'[ch].enq) > Len(chans[ch].enq)
             => \E p \in Procs :
                   /\ proc[p].pc = "send"
                   /\ proc'[p] # proc[p]
                   /\ LET u == Head(proc[p].pending)
                          acct == AccountOf(stream[ch].token)
                      IN u.kind = "app"
                         => \/ u.applicant = acct
                            \/ \E g \in groups :
                                  g.id = u.gid /\ g.creator = acct
      ]_vars

\* A caller who did not create the group was refused, and the stream of the
\* group's creator, registered for the group, got the removal of an
\* application another account had made to it.
C23_RefusedAndCreatorNotified ==
    /\ \E s \in Streams :
          /\ stream[s].kind = "apps"
          /\ stream[s].pc = "done"
          /\ stream[s].resp = "PermissionDenied"
          /\ HasGroup(groups, stream[s].gid)
          /\ GetGroup(groups, stream[s].gid).creator
                # AccountOf(stream[s].token)
          /\ \A gid \in DOMAIN applicationsSubscribers :
                s \notin Snapshot(applicationsSubscribers[gid])
    /\ \E s \in Streams, a \in OldApplications :
          /\ stream[s].kind = "apps"
          /\ stream[s].gid = a.gid
          /\ a.applicant # AccountOf(stream[s].token)
          /\ Enqueued(s, [type |-> "RemovedApplicationId", id |-> a.id])

\* C24: an UpdateGroup whose save commits changes one stored group and, of
\* that group, at most the title and updated_at (the kill-proof fields are
\* not part of the state): the group is in the store before the save and
\* keeps its id, creator and created_at whatever the request carries; every
\* other group and every application stays as it is.
C24_UpdateGroupKeepsIdentity ==
    [][\A p \in Calls :
          (/\ proc[p].op = "UpdateGroup"
           /\ proc[p].pc = "save"
           /\ proc'[p].wrote)
          => /\ applications' = applications
             /\ {g \in groups' : g.id # proc[p].gid}
                   = {g \in groups : g.id # proc[p].gid}
             /\ HasGroup(groups, proc[p].gid)
             /\ HasGroup(groups', proc[p].gid)
             /\ GetGroup(groups', proc[p].gid).creator
                   = GetGroup(groups, proc[p].gid).creator
             /\ GetGroup(groups', proc[p].gid).created
                   = GetGroup(groups, proc[p].gid).created
      ]_vars

\* C25: when Resolve gives Authenticate an error (an upstream or decoding
\* failure, fresh or cached) the call ends with Internal, and when it gives
\* the empty name the call ends with Unauthenticated; either way no
\* ClientInfo is attached and the call never leaves the chain: a rejected
\* call stays rejected, and the handlers that run with a token (each store
\* change, registration and broadcast is a step of one) are never more than
\* the calls with that token that got a ClientInfo and passed the limiter.
\* A call whose Resolve gives a name goes on to the limiter with that name.
C25_RejectedCallRunsNoHandler ==
    [][/\ \A c \in DOMAIN edge' :
             LET isNew == c \notin DOMAIN edge
                 resolved == /\ edge'[c].pc # "fetch"
                             /\ isNew \/ edge[c].pc = "fetch"
                             /\ edge'[c].token # ""
                 outcome == IF isNew THEN cache[edge'[c].token]
                            ELSE cache'[edge'[c].token]
             IN resolved
                => IF outcome.err
                   THEN /\ edge'[c].pc = "done"
                        /\ edge'[c].resp = "Internal"
                        /\ edge'[c].name = ""
                   ELSE IF outcome.name = ""
                   THEN /\ edge'[c].pc = "done"
                        /\ edge'[c].resp = "Unauthenticated"
                        /\ edge'[c].name = ""
                   ELSE /\ edge'[c].pc = "limit"
                        /\ edge'[c].name = outcome.name
       /\ \A c \in DOMAIN edge :
             edge[c].pc = "done" => edge'[c] = edge[c]
       /\ \A t \in BearerTokens :
             Running(t)' <= Cardinality({c \in DOMAIN edge :
                                            /\ edge[c].token = t
                                            /\ edge[c].pc = "handler"
                                            /\ edge[c].name # ""})
      ]_vars

\* One call was rejected as unauthenticated, one with an internal error,
\* and the handler of a third stored a group.
C25_RejectedAndServed ==
    /\ \E c \in DOMAIN edge :
          edge[c].pc = "done" /\ edge[c].resp = "Unauthenticated"
    /\ \E c \in DOMAIN edge :
          edge[c].pc = "done" /\ edge[c].resp = "Internal"
    /\ \E c \in DOMAIN edge, p \in Calls :
          /\ edge[c].pc = "handler"
          /\ proc[p].token = edge[c].token
          /\ proc[p].wrote
          /\ \E g \in groups : g.creator = edge[c].name

\* C26: every answer of the upstream, a name or an error, is stored in the
\* cache under the token with the time of the fetch; a Resolve that finds an
\* entry of its token that is at most an hour old returns the outcome of
\* the entry, leaves the cache as it is and does not contact the upstream;
\* a Resolve that finds no entry, or one older than an hour, leaves no
\* entry of the token in the cache and goes to the upstream; and the
\* entries change in no other way.
C26_CachedOutcomeServedForAnHour ==
    [][/\ \A c \in DOMAIN edge :
             (edge[c].pc = "fetch" /\ edge'[c].pc # "fetch")
             => LET t == edge[c].token
                IN /\ edge'[c].fetched
                   /\ MapHas(cache', t)
                   /\ cache'[t].createTime = now
                   /\ [name |-> cache'[t].name, err |-> cache'[t].err]
                         \in Fetch(t)
                   /\ \A k \in DOMAIN cache \ {t} :
                         MapHas(cache', k) /\ cache'[k] = cache[k]
       /\ \A c \in DOMAIN edge' \ DOMAIN edge :
             edge'[c].token # ""
             => LET t == edge'[c].token
                IN /\ ~edge'[c].fetched
                   /\ IF MapHas(cache, t) /\ now - cache[t].createTime <= Hour
                      THEN /\ cache' = cache
                           /\ edge'[c].pc # "fetch"
                           /\ cache[t].err <=> edge'[c].resp = "Internal"
                           /\ (~cache[t].err /\ cache[t].name = "")
                                 <=> edge'[c].resp = "Unauthenticated"
                           /\ (~cache[t].err /\ cache[t].name # "")
                                 => edge'[c].name = cache[t].name
                      ELSE /\ edge'[c].pc = "fetch"
                           /\ ~MapHas(cache', t)
                           /\ \A k \in DOMAIN cache \ {t} :
                                 MapHas(cache', k) /\ cache'[k] = cache[k]
       /\ cache' # cache
          => \/ DOMAIN edge' # DOMAIN edge
             \/ \E c \in DOMAIN edge :
                   edge[c].pc = "fetch" /\ edge'[c].pc # "fetch"
      ]_vars

\* Three calls with one token: the first fetched an error, the second was
\* answered the cached error without a fetch, the third came after the
\* entry had aged out and contacted the upstream again.
C26_HitThenExpired ==
    \E c1, c2, c3 \in DOMAIN edge :
        /\ c1 < c2 /\ c2 < c3
        /\ edge[c1].token = edge[c2].token
        /\ edge[c2].token = edge[c3].token
        /\ edge[c1].fetched /\ edge[c1].resp = "Internal"
        /\ ~edge[c2].fetched /\ edge[c2].resp = "Internal"
        /\ edge[c3].fetched

\* C27: a call that reaches the limiter without ClientInfo is rejected with
\* InvalidArgument and touches no bucket; a call of a principal touches the
\* bucket of that principal only; while no time has elapsed a principal's
\* call is admitted exactly when fewer than Burst of its calls were admitted
\* before, and the call after those is rejected with ResourceExhausted; and
\* at any time a principal's call is rejected only after Burst admitted
\* calls of that same principal, whatever the other principals did.
C27_BurstPerPrincipal ==
    [][\A c \in DOMAIN edge :
          (edge[c].pc = "limit" /\ edge'[c].pc # "limit")
          => LET a == edge[c].name
                 mine == Cardinality({d \in DOMAIN edge :
                                         /\ edge[d].name = a
                                         /\ edge[d].pc = "handler"})
                 admitted == edge'[c].pc = "handler"
                 rejected == /\ edge'[c].pc = "done"
                             /\ edge'[c].resp = "ResourceExhausted"
             IN IF a = ""
                THEN /\ edge'[c].pc = "done"
                     /\ edge'[c].resp = "InvalidArgument"
                     /\ limiters' = limiters
                ELSE /\ admitted \/ rejected
                     /\ \A k \in DOMAIN limiters \ {a} :
                           MapHas(limiters', k) /\ limiters'[k] = limiters[k]
                     /\ DOMAIN limiters' = DOMAIN limiters \cup {a}
                     /\ now = 0 => (admitted <=> mine < Burst)
                     /\ rejected => mine >= Burst
      ]_vars

\* With no time elapsed: Burst calls of a1 were admitted and its next call
\* was rejected, a later call of a2 was admitted, and a call without
\* ClientInfo was rejected as an invalid argument.
C27_ExhaustedAndOtherAdmitted ==
    /\ now = 0
    /\ Cardinality({d \in DOMAIN edge :
                       edge[d].name = "a1" /\ edge[d].pc = "handler"}) = Burst
    /\ \E c, d \in DOMAIN edge :
          /\ c < d
          /\ edge[c].name = "a1"
          /\ edge[c].resp = "ResourceExhausted"
          /\ edge[d].name = "a2"
          /\ edge[d].pc = "handler"
    /\ \E c \in DOMAIN edge :
          edge[c].name = "" /\ edge[c].resp = "InvalidArgument"

\* C28: the sweep of the limiter removes the buckets that have been idle for
\* a cleanup interval: a bucket that has not been used for longer than the
\* interval does not stay in the registry unused, so a principal who has
\* stopped calling ends up without a bucket.
C28_IdleBucketEvicted ==
    \A a \in Accounts :
        (MapHas(limiters, a) /\ now - limiters[a].last > CleanupInterval)
        ~> ~(MapHas(limiters, a) /\ now - limiters[a].last > CleanupInterval)

(***************************************************************************)
(* The aggregation alone: a response killproof.me can send, decoded, and    *)
(* the pb.KillProof made of it.                                            *)
(***************************************************************************)
SpecKillProof ==
    /\ \E r \in KillProofResponses :
           InitWithKillProof({}, {}, [ops |-> 0, chans |-> 0], r)
    /\ [][KillProofReponseToProto_Call]_vars

\* C29: each counter of the KillProof made of a response is the sum of the
\* amounts of all items, in the killproofs and in the tokens of the account
\* and of every linked account, whose name the fixed table gives to that
\* counter; items with other names count nowhere.
C29_EveryListCountedByName ==
    LET Table(c) == KillproofsSwitch[c] \cup TokensSwitch[c]
        RECURSIVE Total(_, _)
        Total(linked, c) ==
            IF linked = <<>> THEN 0
            ELSE SumAmounts(Head(linked).killproofs, Table(c))
                 + SumAmounts(Head(linked).tokens, Table(c))
                 + Total(Tail(linked), c)
    IN kpProto # NoKillProof =>
           \A c \in Counters :
               kpProto[c] = SumAmounts(kp.killproofs, Table(c))
                            + SumAmounts(kp.tokens, Table(c))
                            + Total(kp.linked, c)

(***************************************************************************)
(* Listings over a file that holds two applications for the group of a1,   *)
(* with the kill-proof lookups of their entries, next to applications      *)
(* being made.                                                             *)
(***************************************************************************)
NextEnrich ==
    \/ \E t \in Tokens, req \in ListGroupApplicationsRequests :
          ListGroupApplications_Get(t, req)
    \/ \E p \in Calls : ListGroupApplications_List(p)
    \/ \E p \in Calls : GetKillProof_RLock(p)
    \/ \E p \in Calls : GetKillProof_getCached(p)
    \/ \E p \in Calls : GetKillProof_fetch(p)
    \/ \E t \in Tokens, gid \in GroupIdArgs :
          CreateGroupApplication_GetGroup(t, gid)
    \/ \E p \in Calls : CreateGroupApplication_List(p)
    \/ \E p \in Calls : CreateGroupApplication_Save(p)
    \/ Tick

SpecEnrich ==
    /\ InitWithStore({OldGroup, OtherGroup},
                     {OldApplication, ThirdApplication},
                     [ops |-> EnrichOps, chans |-> 0])
    /\ [][NextEnrich]_vars

\* C30: no kill-proof lookup fails the call it is made for.  The lookups
\* never end the process; a ListGroupApplications that read its list returns
\* it whole with success, and an entry of it has no kill-proof only when the
\* handler logged an error of the lookup for it; a CreateGroupApplication
\* that passed its validation returns success with its application stored,
\* whatever killproof.me answers.
C30_LookupFailureNeverFailsRpc ==
    /\ ~crashed
    /\ \A p \in Calls :
          /\ (/\ proc[p].op = "ListGroupApplications"
              /\ proc[p].apps # {})
             => /\ proc[p].resp = "OK"
                /\ proc[p].todo \subseteq proc[p].apps
                /\ proc[p].pc = "done" =>
                      /\ proc[p].todo = {}
                      /\ \A a \in proc[p].apps :
                            ~MapHas(proc[p].killProof, a.id)
                            => a.id \in proc[p].failed
          /\ (/\ proc[p].op = "CreateGroupApplication"
              /\ proc[p].aid # 0
              /\ proc[p].pc = "done")
             => /\ proc[p].resp = "OK"
                /\ \E a \in applications : a.id = proc[p].aid

(***************************************************************************)
(* The reaper and a subscription over a file that holds groups, until the   *)
(* contexts end: a signal cancels the context of main, the client leaves   *)
(* its stream.  Each goroutine that can take a step takes one in the       *)
(* end, and a select that is reached again and again with the case of the  *)
(* done context ready takes that case in the end.                          *)
(***************************************************************************)
NextShutdown ==
    \/ Tick
    \/ Reaper_DeleteApplications
    \/ Reaper_DeleteGroups
    \/ \E p \in Procs : BroadcastSnapshot(p)
    \/ \E p \in Procs : BroadcastSend(p)
    \/ Signal
    \/ Reaper_Done
    \/ \E t \in Tokens : SubscribeGroups_Register(t)
    \/ \E t \in Tokens, gid \in GroupIdArgs :
          SubscribeGroupApplications_Register(t, gid)
    \/ \E s \in Streams : SubscribeGroupApplications_GetGroup(s)
    \/ \E s \in Streams : SubscribeGroupApplications_Update(s)
    \/ \E s \in Streams : Subscribe_Send(s)
    \/ \E s \in Streams : Subscribe_Done(s)
    \/ \E s \in Streams : Stream_ContextDone(s)

SpecShutdown ==
    /\ InitWithStore({OldGroup, OtherGroup}, {OldApplication},
                     [ops |-> 0, chans |-> ShutdownChans])
    /\ [][NextShutdown]_vars
    /\ WF_vars(\/ Reaper_DeleteGroups
               \/ BroadcastSnapshot(Reaper)
               \/ BroadcastSend(Reaper))
    /\ SF_vars(Reaper_Done)
    /\ \A s \in 1..ShutdownChans :
          WF_vars(/\ s \in Streams
                  /\ \/ SubscribeGroupApplications_GetGroup(s)
                     \/ SubscribeGroupApplications_Update(s)
                     \/ Subscribe_Done(s))

\* C31: once the context of main is cancelled the reaper's loop stops in the
\* end (or the process has ended), and a loop that has stopped takes no
\* further step, so it deletes and broadcasts nothing; until then a step in
\* which the store fails leaves the loop running with its next step ready.
C31_ReaperStopsOnlyOnCancel ==
    /\ (ctx = "cancelled") ~> (proc[Reaper].pc = "stopped" \/ crashed)
    /\ [][/\ proc[Reaper].pc = "stopped"
             => proc'[Reaper] = proc[Reaper]
          /\ proc'[Reaper].pc = "stopped"
             => proc[Reaper].pc = "stopped" \/ ctx = "cancelled"
          /\ (/\ proc[Reaper].pc \in {"idle", "groups"}
              /\ proc'[Reaper].pc # proc[Reaper].pc
              /\ storeVars' = storeVars)
             => /\ ~crashed'
                /\ proc'[Reaper].pc \in {"idle", "groups", "stopped"}
                /\ proc'[Reaper].pc = "stopped" => ctx = "cancelled"
      ]_vars

\* A stopped loop after the reaper removed the expired rows of the file.
C31_ReapedThenStopped ==
    /\ ctx = "cancelled"
    /\ proc[Reaper].pc = "stopped"
    /\ groups = {}
    /\ \E s \in Streams : chans[s].enq # <<>>

\* C32: a stream whose context has ended has in the end a handler that
\* returned after its deferred function closed its channel (or the process
\* has ended), whatever is enqueued for it meanwhile.
C32_EndedStreamCleansUp ==
    \A s \in 1..ShutdownChans :
        (s \in Streams /\ stream[s].cancelled)
        ~> \/ crashed
           \/ s \in Streams /\ stream[s].pc = "done" /\ chans[s].closed

\* C33: no broadcast, of a unary handler or of the reaper, comes to a send
\* on a channel its handler has closed: when a broadcast is at its sends,
\* every channel of its snapshot and the channel registered for the
\* applicant are open.
C33_NoSendOnClosedChannel ==
    \A p \in Procs :
        proc[p].pc = "send"
        => LET u == Head(proc[p].pending) IN
           /\ \A ch \in proc[p].snap : ~chans[ch].closed
           /\ (u.kind = "app" /\ MapHas(myApplicationsSubscribers, u.applicant))
              => ~chans[myApplicationsSubscribers[u.applicant]].closed

\* C34: of the open subscription streams registered under one key (the
\* token in groupsSubscribers, the account in myApplicationsSubscribers),
\* the one that registered last is the registered one until its own exit,
\* whatever streams of the same key have exited meanwhile.
C34_LastRegisteredStaysRegistered ==
    \A s \in Streams :
        (/\ stream[s].pc # "done"
         /\ \A s2 \in Streams :
                s2 > s => \/ stream[s2].kind # stream[s].kind
                          \/ stream[s2].token # stream[s].token)
        => IF stream[s].kind = "groups"
           THEN /\ MapHas(groupsSubscribers, stream[s].token)
                /\ groupsSubscribers[stream[s].token] = s
           ELSE /\ MapHas(myApplicationsSubscribers,
                          AccountOf(stream[s].token))
                /\ myApplicationsSubscribers[AccountOf(stream[s].token)] = s

\* C35: only CreateGroup adds a group to the store, under an id of its own
\* and with its caller as creator, and no step changes the creator of a
\* stored group: UpdateGroup never adds a group, so an id that was removed
\* is never stored again.
C35_OnlyCreateGroupAddsGroups ==
    [][/\ \A g \in groups' :
              ~HasGroup(groups, g.id)
              => \E p \in Calls :
                     /\ proc[p].op = "CreateGroup"
                     /\ proc[p].pc = "save"
                     /\ proc'[p].wrote
                     /\ g.id = proc[p].gid
                     /\ g.creator = AccountOf(proc[p].token)
       /\ \A g \in groups' :
              HasGroup(groups, g.id)
              => g.creator = GetGroup(groups, g.id).creator
      ]_vars

\* C36: the updates about a group enter a buffer in the order of their
\* writes.  With at most one committed DeleteGroup of g, a NewGroup(g) or
\* UpdatedGroup(g) is not enqueued into a buffer that already holds
\* RemovedGroupId(g) while g is absent from the store: the write of such an
\* update preceded the removal.
C36_NoUpdateAfterItsRemoval ==
    [][\A s \in Streams :
          \A i \in (Len(chans[s].enq) + 1)..Len(chans'[s].enq) :
              LET m == chans'[s].enq[i] IN
              (/\ m.type \in {"NewGroup", "UpdatedGroup"}
               /\ Enqueued(s, [type |-> "RemovedGroupId", id |-> m.id])
               /\ Cardinality({p \in Calls : /\ proc[p].op = "DeleteGroup"
                                             /\ proc[p].wrote
                                             /\ proc[p].gid = m.id}) <= 1)
              => HasGroup(groups, m.id)
      ]_vars

\* C37: in every reachable state each stored application references a
\* group that is in the store.
C37_ApplicationsReferenceStoredGroups ==
    \A a \in applications : HasGroup(groups, a.gid)

\* C38: the upstream is contacted at most once per token and TTL window:
\* a call fetches for its token only while the cache holds no entry of the
\* token that is less than an hour old, calls that missed the cache at the
\* same time included.
C38_OneFetchPerTokenAndWindow ==
    [][\A c \in DOMAIN edge :
          (~edge[c].fetched /\ edge'[c].fetched)
          => ~getCached(cache, edge[c].token, now).hit
      ]_vars

\* C39: an entry of the kill-proof cache is written or deleted only under
\* the exclusive lock: no step changes the map while a thread holds the
\* shared lock, and the lookups never end the process with a concurrent
\* map access.
C39_MapChangesUnderExclusiveLock ==
    [][/\ kpCache' # kpCache => kpReaders = {}
       /\ ~crashed'
      ]_vars

(***************************************************************************)
(* A group with an application is deleted while an UpdateGroup of it is    *)
(* under way; the accounts watch the applications of the group and delete  *)
(* them.                                                                   *)
(***************************************************************************)
NextHandOver ==
    \/ \E t \in Tokens, gid \in GroupIdArgs, title \in Titles,
          creator \in Accounts : UpdateGroup_Validate(t, gid, title, creator)
    \/ \E p \in Calls : UpdateGroup_Save(p)
    \/ \E t \in Tokens, gid \in GroupIdArgs : DeleteGroup_Get(t, gid)
    \/ \E t \in Tokens, aid \in ApplicationIdArgs :
          DeleteGroupApplication_Get(t, aid)
    \/ \E p \in Calls : Handler_Delete(p)
    \/ \E p \in Calls : BroadcastSnapshot(p)
    \/ \E p \in Calls : BroadcastSend(p)
    \/ \E t \in Tokens, gid \in GroupIdArgs :
          SubscribeGroupApplications_Register(t, gid)
    \/ \E s \in Streams : SubscribeGroupApplications_GetGroup(s)
    \/ \E s \in Streams : SubscribeGroupApplications_Update(s)
    \/ \E s \in Streams : Subscribe_Send(s)
    \/ \E s \in Streams : Subscribe_Done(s)

SpecHandOver ==
    /\ InitWithStore({OldGroup}, {OldApplication},
                     [ops |-> HandOverOps, chans |-> HandOverChans])
    /\ [][NextHandOver]_vars

\* C40: one broadcast of an application update offers the update to a
\* buffer once: the buffer registered for the applicant is not among the
\* buffers the broadcast took from the registry of the group.
C40_UpdateOfferedOncePerBuffer ==
    \A p \in Procs :
        (proc[p].pc = "send" /\ Head(proc[p].pending).kind = "app")
        => \A a \in DOMAIN myApplicationsSubscribers :
               a = Head(proc[p].pending).applicant
               => myApplicationsSubscribers[a] \notin proc[p].snap

====
